---- MODULE Spec2Model ----
(***************************************************************************)
(* Model of the text-overlay compiler of comfy_add_subtitles:              *)
(*   - TextOverlayStyle and its position resolver                          *)
(*       (services/text_overlay_service.py),                               *)
(*   - TextOverlayService.validate_style, the ffmpeg command builders and  *)
(*       the five advanced effects,                                        *)
(*   - SubtitleStyle.get_position_filter (core/subtitle_style.py) and the  *)
(*       SubtitleStyle -> TextOverlayStyle conversion of the ComfyUI node, *)
(*   - the two entry points TextOverlayVideoNode.process_text_overlay and  *)
(*       TextOverlayService.add_text_overlay as step-by-step processes     *)
(*       whose external interactions are logged.                           *)
(*                                                                         *)
(* Conventions.  Python floats that the code only compares and prints are  *)
(* integers here: times are whole seconds (printed "5.0"), the background  *)
(* opacity is a fraction num/den.  Python None is the empty sequence and   *)
(* a present optional value v is <<v>>.  A colour is a record: tuple says  *)
(* whether the object is a Python tuple (FALSE: a list), c is the sequence *)
(* of its components, each with int (isinstance(c, int)) and its value v.  *)
(* A drawtext option "k=v" is the record [k |-> k, v |-> v]; one entry of  *)
(* the filter graph "[in]drawtext=...[out]" is [input, parts, output].     *)
(***************************************************************************)
EXTENDS Integers, Sequences, FiniteSets, TLC

VARIABLES
    style,      \* the TextOverlayStyle being validated / compiled
    origin,     \* "given": style is the caller's; "converted": made from sub
    sub,        \* the SubtitleStyle being resolved / converted
    vres,       \* last result of validate_style
    cmd,        \* last command built by _build_ffmpeg_command
    pos,        \* last result of SubtitleStyle.get_position_filter
    opos,       \* last result of TextOverlayStyle.get_position_expression
    pc,         \* position of the running entry point
    entry,      \* which entry point is running
    ext,        \* log of external interactions, oldest first
    outcome,    \* what the entry point returned
    video_info, \* what _get_video_info returned to add_text_overlay
    family_names, \* the family names handed to the font functions, in their order
    languages,  \* _detect_font_language of each of them
    ranked,     \* result of _categorize_fonts
    labelled,   \* result of get_fonts_with_language_labels
    stripped,   \* extract_font_name_from_label of each label
    _available_fonts, \* FontManager._available_fonts
    catalog_queries,  \* fc-list runs since the cache was last reset
    catalog_calls,    \* get_available_fonts calls since the cache was last reset
    returned_fonts,   \* what the last get_available_fonts call returned
    first_fonts,      \* what the first call since the last reset returned
    last_query,       \* outcome of the last fc-list run
    _categorized_fonts, \* FontManager._categorized_fonts
    labeled_fonts,    \* what the last get_fonts_with_language_labels call returned
    files,            \* the paths os.path.exists finds
    font_config,      \* the content of font_config.json, if there is one
    _font_cache,      \* FontManager._font_cache
    path_request,     \* the arguments of the last get_font_path call
    returned_path,    \* what the last get_font_path call returned
    path_lookup,      \* whether that call hit _font_cache, and what fc-match did
    _font_manager,    \* the module global _font_manager
    manager_fonts,    \* _available_fonts of every FontManager created
    tpc,              \* where each thread is in its first request for font data
    held,             \* the manager get_font_manager returned to each thread
    observed,         \* the list get_available_fonts returned to each thread
    fc_running,       \* the threads whose fc-list subprocess is running
    fc_runs,          \* how many fc-list subprocesses were started
    _model_cache,     \* WhisperModelNode._model_cache
    services,         \* how many WhisperService objects were created
    wpc,              \* where each thread is in load_model
    wargs,            \* the arguments of each thread's load_model call
    wresult,          \* the service load_model returned to each thread
    model_loads,      \* completed loads per key of requests that did not force,
                      \* since the cache was last cleared
    service_state,    \* _model and _current_model_config of every WhisperService
    returned_services, \* the services a load_model call returned
    transcribed,      \* the outcome of the last transcribe_audio call
    heap,             \* the SubtitleStyle objects alive, by reference
    preset_call,      \* the last PresetStyles call: factory, reference, value returned
    custom_style,     \* what the last _create_custom_style call returned
    disk,             \* the files of the output directory, and the videos
    now,              \* int(time.time())
    pipeline_result   \* what the last run of the subtitle pipeline returned

overlayVars ==
    <<style, origin, sub, vres, cmd, pos, opos, pc, entry, ext, outcome, video_info>>
fontVars == <<family_names, languages, ranked, labelled, stripped>>
catalogVars ==
    <<_available_fonts, catalog_queries, catalog_calls, returned_fonts, first_fonts,
      last_query, _categorized_fonts, labeled_fonts>>
pathVars == <<files, font_config, _font_cache, path_request, returned_path, path_lookup>>
threadVars ==
    <<_font_manager, manager_fonts, tpc, held, observed, fc_running, fc_runs>>
whisperVars ==
    <<_model_cache, services, wpc, wargs, wresult, model_loads, service_state,
      returned_services, transcribed>>
presetVars == <<heap, preset_call, custom_style>>
pipelineVars == <<disk, now, pipeline_result>>
laterVars == <<threadVars, whisperVars, presetVars, pipelineVars>>
restVars == <<fontVars, catalogVars, pathVars, laterVars>>
vars == <<overlayVars, restVars>>

(***************************************************************************)
(* Bounds of the model.                                                    *)
(***************************************************************************)
MaxColorLen == 4        \* colour tuples of 0..MaxColorLen components
MaxLayers == 3          \* neon / 3D-shadow layer counts 0..MaxLayers
MaxFonts == 3           \* lists of 0..MaxFonts discovered family names
MaxTokens == 3          \* family names of 1..MaxTokens words
MaxLines == 2           \* fc-list prints 0..MaxLines lines
MaxStyles == 2          \* at most MaxStyles SubtitleStyle objects are alive
MaxServices == 2        \* at most MaxServices WhisperService objects are created
MaxClock == 1           \* int(time.time()) takes the values 0..MaxClock
NumThreads == 2         \* threads 1..NumThreads run concurrently
MaxCached == 1          \* _font_cache holds at most MaxCached resolved keys
MaxCalls == 3           \* get_available_fonts is called at most MaxCalls times between resets

(***************************************************************************)
(* Python helpers.                                                         *)
(***************************************************************************)
None == <<>>
Some(v) == <<v>>
IsNone(o) == o = <<>>
Val(o) == o[1]

HexDigits == <<"0", "1", "2", "3", "4", "5", "6", "7",
               "8", "9", "a", "b", "c", "d", "e", "f">>

RECURSIVE HexStr(_)
HexStr(n) ==
    IF n < 16 THEN HexDigits[n + 1]
    ELSE HexStr(n \div 16) \o HexDigits[(n % 16) + 1]

\* format(n, '02x'): zero-padded to width 2, the sign counts towards the width
Fmt02x(n) ==
    IF n < 0 THEN "-" \o HexStr(-n)
    ELSE IF n < 16 THEN "0" \o HexStr(n)
    ELSE HexStr(n)

\* int(a / b) for b > 0: truncation towards zero
TruncDiv(a, b) == IF a >= 0 THEN a \div b ELSE -((-a) \div b)

\* str(t) of a float holding the whole number t
FloatStr(t) == ToString(t) \o ".0"

RECURSIVE Join(_, _)
Join(seq, sep) ==
    IF seq = <<>> THEN ""
    ELSE IF Len(seq) = 1 THEN seq[1]
    ELSE seq[1] \o sep \o Join(Tail(seq), sep)

I(n) == [int |-> TRUE, v |-> n]
F(n) == [int |-> FALSE, v |-> n]
RGB(r, g, b) == [tuple |-> TRUE, c |-> <<I(r), I(g), I(b)>>]
RGBA(r, g, b, a) == [tuple |-> TRUE, c |-> <<I(r), I(g), I(b), I(a)>>]

\* f"0x{c[0]:02x}{c[1]:02x}{c[2]:02x}"
ColorHex(color) ==
    "0x" \o Fmt02x(color.c[1].v) \o Fmt02x(color.c[2].v) \o Fmt02x(color.c[3].v)

\* the f-string above raises IndexError on a short sequence and ValueError
\* on a float component
Formattable(color) ==
    /\ Len(color.c) >= 3
    /\ \A i \in 1..3 : color.c[i].int

\* r overridden by the fields of o
Override(r, o) ==
    [f \in DOMAIN r |-> IF f \in DOMAIN o THEN o[f] ELSE r[f]]

(***************************************************************************)
(* TextOverlayStyle.                                                       *)
(***************************************************************************)
TextOverlayStyle ==
    [ position_preset |-> "bottom_center",
      margin_x |-> 50,
      font_family |-> "Arial",
      font_size |-> 24,
      font_color |-> RGB(0, 0, 0),
      font_bold |-> FALSE,
      background_enabled |-> TRUE,
      background_color |-> RGB(255, 255, 255),
      background_opacity |-> [num |-> 8, den |-> 10],
      background_padding |-> 10,
      text_alignment |-> "center",
      enable_shadow |-> FALSE,
      shadow_color |-> RGB(128, 128, 128),
      shadow_offset_x |-> 2,
      shadow_offset_y |-> 2,
      enable_border |-> FALSE,
      border_color |-> RGB(0, 0, 0),
      border_width |-> 1,
      line_spacing |-> 4,
      start_time |-> 0,
      end_time |-> None,
      glow_enabled |-> FALSE,
      glow_color |-> RGB(255, 255, 255),
      glow_intensity |-> 8,
      double_outline_enabled |-> FALSE,
      outline_inner_width |-> 2,
      outline_inner_color |-> RGB(255, 255, 255),
      outline_outer_width |-> 4,
      outline_outer_color |-> RGB(0, 0, 0),
      neon_enabled |-> FALSE,
      neon_base_color |-> RGB(255, 20, 147),
      neon_glow_layers |-> 3,
      neon_intensity |-> 10,
      shadow_3d_enabled |-> FALSE,
      shadow_3d_layers |-> 5,
      shadow_3d_depth |-> 3,
      shadow_3d_angle |-> 225,
      glitch_enabled |-> FALSE,
      glitch_displacement |-> 3,
      glitch_color_shift |-> TRUE ]

\* TextOverlayStyle.get_position_expression: <<x, y>>
get_position_expression(s) ==
    LET x == IF s.text_alignment = "left"
             THEN (IF s.margin_x > 0 THEN ToString(s.margin_x) ELSE "0")
             ELSE IF s.text_alignment = "right"
             THEN (IF s.margin_x > 0
                   THEN "w-text_w-" \o ToString(s.margin_x)
                   ELSE "w-text_w")
             ELSE (IF s.margin_x > 0
                   THEN "(w-text_w-" \o ToString(s.margin_x * 2) \o ")/2+"
                            \o ToString(s.margin_x)
                   ELSE "(w-text_w)/2")
        y == CASE s.position_preset = "bottom" -> "h-text_h-h*0.05"
               [] s.position_preset = "bottom_low" -> "h-text_h-h*0.03"
               [] s.position_preset = "bottom_high" -> "h-text_h-h*0.08"
               [] s.position_preset = "center" -> "(h-text_h)/2"
               [] s.position_preset = "center_low" -> "(h-text_h)/2+h*0.05"
               [] s.position_preset = "center_high" -> "(h-text_h)/2-h*0.05"
               [] s.position_preset = "top" -> "h*0.08"
               [] s.position_preset = "top_low" -> "h*0.15"
               [] s.position_preset = "top_high" -> "h*0.03"
               [] OTHER -> "h-text_h-h*0.05"
    IN  <<x, y>>

(***************************************************************************)
(* TextOverlayService.validate_style.                                      *)
(***************************************************************************)
Valid == [ok |-> TRUE, field |-> "", reason |-> "", index |-> 0]
Invalid(field, reason, index) ==
    [ok |-> FALSE, field |-> field, reason |-> reason, index |-> index]

\* first i in 1..Len(c) whose component is not an int in 0..255, 0 if none
RECURSIVE FirstBadComponent(_, _)
FirstBadComponent(c, i) ==
    IF i > Len(c) THEN 0
    ELSE IF ~c[i].int \/ c[i].v < 0 \/ c[i].v > 255 THEN i
    ELSE FirstBadComponent(c, i + 1)

\* the body of the loop over the four colours: Valid, or the error returned
check_color_rgba(color_name, color) ==
    IF ~color.tuple \/ Len(color.c) \notin {3, 4}
    THEN Invalid(color_name, "must be a tuple of 3 elements", 0)
    ELSE LET i == FirstBadComponent(color.c, 1)
         IN  IF i # 0
             THEN Invalid(color_name, "component must be an integer in 0-255", i)
             ELSE Valid

check_color(color_name, color) ==
    IF ~color.tuple \/ Len(color.c) # 3
    THEN Invalid(color_name, "must be a tuple of 3 elements", 0)
    ELSE LET i == FirstBadComponent(color.c, 1)
         IN  IF i # 0
             THEN Invalid(color_name, "component must be an integer in 0-255", i)
             ELSE Valid

ColorFields == <<"font_color", "background_color", "shadow_color", "border_color">>

\* the for loop over the four colours, from colour k on
RECURSIVE check_colors(_, _)
check_colors(s, k) ==
    IF k > Len(ColorFields) THEN Valid
    ELSE LET r == check_color(ColorFields[k], s[ColorFields[k]])
         IN  IF ~r.ok THEN r ELSE check_colors(s, k + 1)

validate_style_size_first(s) ==
    IF s.start_time < 0
    THEN Invalid("start_time", "must not be negative", 0)
    ELSE IF ~IsNone(s.end_time) /\ Val(s.end_time) <= s.start_time
    THEN Invalid("end_time", "must be greater than start_time", 0)
    ELSE IF s.font_size <= 0
    THEN Invalid("font_size", "must be greater than 0", 0)
    ELSE LET r == check_colors(s, 1)
         IN  IF ~r.ok THEN r
             ELSE IF ~(0 <= s.background_opacity.num
                       /\ s.background_opacity.num <= s.background_opacity.den)
             THEN Invalid("background_opacity", "must be between 0 and 1", 0)
             ELSE Valid

validate_style(s) ==
    IF s.start_time < 0
    THEN Invalid("start_time", "must not be negative", 0)
    ELSE IF ~IsNone(s.end_time) /\ Val(s.end_time) <= s.start_time
    THEN Invalid("end_time", "must be greater than start_time", 0)
    ELSE LET r == check_colors(s, 1)
         IN  IF ~r.ok THEN r
             ELSE IF ~(0 <= s.background_opacity.num
                       /\ s.background_opacity.num <= s.background_opacity.den)
             THEN Invalid("background_opacity", "must be between 0 and 1", 0)
             ELSE IF s.font_size <= 0
             THEN Invalid("font_size", "must be greater than 0", 0)
             ELSE Valid

(***************************************************************************)
(* The ffmpeg command builders.  A built command is                        *)
(*   [kind, graph, map]: kind "vf" (basic path, one unlabelled drawtext),  *)
(*   "filter_complex" (advanced path, graph of labelled entries, map the   *)
(*   label given to -map) or "raise" (the builder raised an exception).    *)
(* The font file is what FontManager.get_font_path returned for the        *)
(* style's family and weight; it is an input chosen by the environment.    *)
(***************************************************************************)
P(k, v) == [k |-> k, v |-> v]
Entry(input, parts, output) == [input |-> input, parts |-> parts, output |-> output]
NoCmd == [kind |-> "none", graph |-> <<>>, map |-> ""]
Raised == [kind |-> "raise", graph |-> <<>>, map |-> ""]
Transparent == "0x00000000"

\* text_content.replace(':', '\\:').replace("'", "\\'") on a sequence of characters
escape_text(text) ==
    Join([i \in 1..Len(text) |->
            IF text[i] = ":" THEN "\\:"
            ELSE IF text[i] = "'" THEN "\\'"
            ELSE text[i]], "")

\* the enable='between(t,start,end)' option, present only for a restricted window
time_parts(s, video_duration) ==
    LET end_time == IF IsNone(s.end_time) THEN video_duration ELSE Val(s.end_time)
    IN  IF s.start_time > 0 \/ end_time < video_duration
        THEN << P("enable", "'between(t," \o FloatStr(s.start_time) \o ","
                              \o FloatStr(end_time) \o ")'") >>
        ELSE <<>>

border_parts(s) ==
    IF s.enable_border
    THEN << P("borderw", ToString(s.border_width)),
            P("bordercolor", ColorHex(s.border_color)) >>
    ELSE <<>>

_get_base_text_config(s, text, font_path, video_duration) ==
    LET xy == get_position_expression(s)
    IN  << P("text", "'" \o escape_text(text) \o "'"),
           P("fontfile", font_path),
           P("fontsize", ToString(s.font_size)),
           P("x", xy[1]),
           P("y", xy[2]) >>
        \o (IF s.line_spacing >= 0
            THEN << P("line_spacing", ToString(s.line_spacing)) >> ELSE <<>>)
        \o time_parts(s, video_duration)

_build_basic_command(s, text, font_path, video_duration) ==
    LET xy == get_position_expression(s)
        bg_alpha == TruncDiv(s.background_opacity.num * 255, s.background_opacity.den)
        parts ==
            << P("text", "'" \o escape_text(text) \o "'"),
               P("fontfile", font_path),
               P("fontsize", ToString(s.font_size)),
               P("fontcolor", ColorHex(s.font_color)),
               P("x", xy[1]),
               P("y", xy[2]) >>
            \o (IF s.line_spacing >= 0
                THEN << P("line_spacing", ToString(s.line_spacing)) >> ELSE <<>>)
            \o (IF s.background_enabled
                THEN << P("box", "1"),
                        P("boxcolor", ColorHex(s.background_color) \o Fmt02x(bg_alpha)),
                        P("boxborderw", ToString(s.background_padding)) >>
                ELSE <<>>)
            \o border_parts(s)
            \o (IF s.enable_shadow
                THEN << P("shadowcolor", ColorHex(s.shadow_color)),
                        P("shadowx", ToString(s.shadow_offset_x)),
                        P("shadowy", ToString(s.shadow_offset_y)) >>
                ELSE <<>>)
            \o time_parts(s, video_duration)
    IN  IF /\ Formattable(s.font_color)
           /\ s.background_enabled => Formattable(s.background_color)
           /\ s.enable_border => Formattable(s.border_color)
           /\ s.enable_shadow => Formattable(s.shadow_color)
        THEN [kind |-> "vf", graph |-> << Entry("", parts, "") >>, map |-> ""]
        ELSE Raised

(***************************************************************************)
(* The advanced effects.  Each returns [graph, out]: the entries it        *)
(* appended to filter_complex and the label it returned.                   *)
(***************************************************************************)
\* label of layer i (0-based) of a numbered family, and the input of layer i
Lbl(prefix, i) == prefix \o ToString(i)
LayerInput_stuck(prefix, i, input_label) == input_label
LayerInput(prefix, i, input_label) == IF i = 0 THEN input_label ELSE Lbl(prefix, i - 1)
Max(a, b) == IF a >= b THEN a ELSE b

_add_glow_effect_transparent(input_label, base_parts, s) ==
    LET glow_color_hex == ColorHex(s.glow_color)
        layer(i) ==
            Entry(LayerInput("glow", i, input_label),
                  base_parts \o << P("fontcolor", Transparent),
                                   P("shadowcolor", glow_color_hex),
                                   P("shadowx", ToString(i)),
                                   P("shadowy", ToString(i)),
                                   P("shadowblur", ToString(s.glow_intensity + i * 2)) >>,
                  Lbl("glow", i))
        main == Entry(LayerInput("glow", 3, input_label),
                      base_parts \o << P("fontcolor", ColorHex(s.font_color)) >>
                                 \o border_parts(s),
                      "glow_final")
    IN  [graph |-> [i \in 1..3 |-> layer(i - 1)] \o <<main>>, out |-> "glow_final"]

_add_glow_effect(input_label, base_parts, s) ==
    LET glow_color_hex == ColorHex(s.glow_color)
        layer(i) ==
            Entry(LayerInput("glow", i, input_label),
                  base_parts \o << P("fontcolor", glow_color_hex),
                                   P("shadowcolor", glow_color_hex),
                                   P("shadowx", ToString(i)),
                                   P("shadowy", ToString(i)),
                                   P("shadowblur", ToString(s.glow_intensity + i * 2)) >>,
                  Lbl("glow", i))
        main == Entry(LayerInput("glow", 3, input_label),
                      base_parts \o << P("fontcolor", ColorHex(s.font_color)) >>
                                 \o border_parts(s),
                      "glow_final")
    IN  [graph |-> [i \in 1..3 |-> layer(i - 1)] \o <<main>>, out |-> "glow_final"]

_add_double_outline_effect_swapped(input_label, base_parts, s) ==
    LET inner == Entry(input_label,
                       base_parts \o << P("fontcolor", Transparent),
                                        P("borderw", ToString(s.outline_inner_width)),
                                        P("bordercolor", ColorHex(s.outline_inner_color)) >>,
                       "outer_outline")
        outer == Entry("outer_outline",
                       base_parts \o << P("fontcolor", Transparent),
                                        P("borderw", ToString(s.outline_outer_width)),
                                        P("bordercolor", ColorHex(s.outline_outer_color)) >>,
                       "double_outline")
        main == Entry("double_outline",
                      base_parts \o << P("fontcolor", ColorHex(s.font_color)) >>,
                      "double_final")
    IN  [graph |-> <<inner, outer, main>>, out |-> "double_final"]

_add_double_outline_effect(input_label, base_parts, s) ==
    LET outer == Entry(input_label,
                       base_parts \o << P("fontcolor", Transparent),
                                        P("borderw", ToString(s.outline_outer_width)),
                                        P("bordercolor", ColorHex(s.outline_outer_color)) >>,
                       "outer_outline")
        inner == Entry("outer_outline",
                       base_parts \o << P("fontcolor", Transparent),
                                        P("borderw", ToString(s.outline_inner_width)),
                                        P("bordercolor", ColorHex(s.outline_inner_color)) >>,
                       "double_outline")
        main == Entry("double_outline",
                      base_parts \o << P("fontcolor", ColorHex(s.font_color)) >>,
                      "double_final")
    IN  [graph |-> <<outer, inner, main>>, out |-> "double_final"]

_add_neon_effect(input_label, base_parts, s) ==
    LET n == Max(s.neon_glow_layers, 0)
        layer(i) ==
            Entry(LayerInput("neon", i, input_label),
                  base_parts \o << P("fontcolor", Transparent),
                                   P("shadowcolor", ColorHex(s.neon_base_color)
                                        \o Fmt02x(Max(80 - i * 20, 20))),
                                   P("shadowx", "0"),
                                   P("shadowy", "0") >>,
                  Lbl("neon", i))
        main == Entry(LayerInput("neon", n, input_label),
                      base_parts \o << P("fontcolor", ColorHex(s.neon_base_color)),
                                       P("borderw", "2"),
                                       P("bordercolor", "0xFFFFFFFF") >>,
                      "neon_final")
    IN  [graph |-> [i \in 1..n |-> layer(i - 1)] \o <<main>>, out |-> "neon_final"]

\* math.cos / math.sin of math.radians(angle), in millionths
Cos6(angle) ==
    CASE angle = 0 -> 1000000 [] angle = 45 -> 707107 [] angle = 90 -> 0
      [] angle = 180 -> -1000000 [] angle = 225 -> -707107 [] angle = 270 -> 0
Sin6(angle) ==
    CASE angle = 0 -> 0 [] angle = 45 -> 707107 [] angle = 90 -> 1000000
      [] angle = 180 -> 0 [] angle = 225 -> -707107 [] angle = 270 -> -1000000

_add_3d_shadow_effect(input_label, base_parts, s) ==
    LET n == Max(s.shadow_3d_layers, 0)
        layer(i) ==
            LET shadow_color_hex == "0x000000" \o Fmt02x(Max(150 - i * 25, 30))
            IN  Entry(LayerInput("shadow3d", i, input_label),
                      base_parts \o << P("fontcolor", shadow_color_hex),
                                       P("shadowcolor", shadow_color_hex),
                                       P("shadowx", ToString(TruncDiv(
                                           Cos6(s.shadow_3d_angle) * s.shadow_3d_depth * (i + 1),
                                           1000000))),
                                       P("shadowy", ToString(TruncDiv(
                                           Sin6(s.shadow_3d_angle) * s.shadow_3d_depth * (i + 1),
                                           1000000))) >>,
                      Lbl("shadow3d", i))
        main == Entry(LayerInput("shadow3d", n, input_label),
                      base_parts \o << P("fontcolor", ColorHex(s.font_color)) >>
                                 \o border_parts(s),
                      "shadow3d_final")
    IN  [graph |-> [i \in 1..n |-> layer(i - 1)] \o <<main>>, out |-> "shadow3d_final"]

\* a glitch effect that draws the tinted passes whatever glitch_color_shift is
_add_glitch_effect_always_tinted(input_label, base_parts, s) ==
    LET base_x == base_parts[4].v
        red == Entry(input_label,
                     base_parts \o << P("fontcolor", "0xFF0000FF"),
                                      P("x", base_x \o "+" \o ToString(s.glitch_displacement)) >>,
                     "glitch_red")
        cyan == Entry("glitch_red",
                      base_parts \o << P("fontcolor", "0x00FFFFFF"),
                                       P("x", base_x \o "-" \o ToString(s.glitch_displacement)) >>,
                      "glitch_color")
        main == Entry("glitch_color",
                      base_parts \o << P("fontcolor", ColorHex(s.font_color)) >>
                                 \o border_parts(s),
                      "glitch_final")
    IN  [graph |-> <<red, cyan, main>>, out |-> "glitch_final"]

_add_glitch_effect(input_label, base_parts, s) ==
    LET base_x == base_parts[4].v       \* base_parts[3].split('=')[1]
        red == Entry(input_label,
                     base_parts \o << P("fontcolor", "0xFF0000FF"),
                                      P("x", base_x \o "+" \o ToString(s.glitch_displacement)) >>,
                     "glitch_red")
        cyan == Entry("glitch_red",
                      base_parts \o << P("fontcolor", "0x00FFFFFF"),
                                       P("x", base_x \o "-" \o ToString(s.glitch_displacement)) >>,
                      "glitch_color")
        main == Entry(IF s.glitch_color_shift THEN "glitch_color" ELSE input_label,
                      base_parts \o << P("fontcolor", ColorHex(s.font_color)) >>
                                 \o border_parts(s),
                      "glitch_final")
    IN  [graph |-> (IF s.glitch_color_shift THEN <<red, cyan>> ELSE <<>>) \o <<main>>,
         out |-> "glitch_final"]

\* the colours the chosen effect formats; a malformed one makes the builder raise
effect_colors(s) ==
    IF s.glow_enabled
    THEN <<s.glow_color, s.font_color>> \o (IF s.enable_border THEN <<s.border_color>> ELSE <<>>)
    ELSE IF s.double_outline_enabled
    THEN <<s.outline_outer_color, s.outline_inner_color, s.font_color>>
    ELSE IF s.neon_enabled
    THEN <<s.neon_base_color>>
    ELSE <<s.font_color>> \o (IF s.enable_border THEN <<s.border_color>> ELSE <<>>)

_build_advanced_effect_command_last_first(s, text, font_path, video_duration) ==
    LET current_input == "0:v"
        base_filter_parts == _get_base_text_config(s, text, font_path, video_duration)
        r == IF s.glitch_enabled
             THEN _add_glitch_effect(current_input, base_filter_parts, s)
             ELSE IF s.shadow_3d_enabled
             THEN _add_3d_shadow_effect(current_input, base_filter_parts, s)
             ELSE IF s.neon_enabled
             THEN _add_neon_effect(current_input, base_filter_parts, s)
             ELSE IF s.double_outline_enabled
             THEN _add_double_outline_effect(current_input, base_filter_parts, s)
             ELSE _add_glow_effect(current_input, base_filter_parts, s)
    IN  [kind |-> "filter_complex", graph |-> r.graph, map |-> r.out]

_build_advanced_effect_command(s, text, font_path, video_duration) ==
    LET current_input == "0:v"
        base_filter_parts == _get_base_text_config(s, text, font_path, video_duration)
        r == IF s.glow_enabled
             THEN _add_glow_effect(current_input, base_filter_parts, s)
             ELSE IF s.double_outline_enabled
             THEN _add_double_outline_effect(current_input, base_filter_parts, s)
             ELSE IF s.neon_enabled
             THEN _add_neon_effect(current_input, base_filter_parts, s)
             ELSE IF s.shadow_3d_enabled
             THEN _add_3d_shadow_effect(current_input, base_filter_parts, s)
             ELSE IF s.glitch_enabled
             THEN _add_glitch_effect(current_input, base_filter_parts, s)
             ELSE [graph |-> << Entry(current_input, base_filter_parts, "out") >>,
                   out |-> "out"]
    IN  IF \A i \in 1..Len(effect_colors(s)) : Formattable(effect_colors(s)[i])
        THEN [kind |-> "filter_complex", graph |-> r.graph, map |-> r.out]
        ELSE Raised

use_advanced_effects(s) ==
    \/ s.glow_enabled
    \/ s.double_outline_enabled
    \/ s.neon_enabled
    \/ s.shadow_3d_enabled
    \/ s.glitch_enabled

_build_ffmpeg_command_single_effect(s, text, font_path, video_duration) ==
    IF Cardinality({f \in {"glow_enabled", "double_outline_enabled", "neon_enabled",
                           "shadow_3d_enabled", "glitch_enabled"} : s[f]}) > 1
    THEN Raised
    ELSE IF use_advanced_effects(s)
    THEN _build_advanced_effect_command(s, text, font_path, video_duration)
    ELSE _build_basic_command(s, text, font_path, video_duration)

_build_ffmpeg_command(s, text, font_path, video_duration) ==
    IF use_advanced_effects(s)
    THEN _build_advanced_effect_command(s, text, font_path, video_duration)
    ELSE _build_basic_command(s, text, font_path, video_duration)

(***************************************************************************)
(* SubtitleStyle (core/subtitle_style.py).  line_spacing is in tenths.     *)
(***************************************************************************)
SubtitleStyle ==
    [ position |-> "bottom_center",
      margin_x |-> 120,
      margin_y |-> 50,
      custom_x |-> None,
      custom_y |-> None,
      font_family |-> "Noto Sans CJK SC,WenQuanYi Zen Hei,Arial",
      font_size |-> 24,
      font_weight |-> "bold",
      font_color |-> RGB(255, 255, 255),
      outline_color |-> RGB(0, 0, 0),
      outline_width |-> 2,
      shadow_enabled |-> TRUE,
      shadow_color |-> RGB(0, 0, 0),
      shadow_offset_x |-> 2,
      shadow_offset_y |-> 2,
      shadow_blur |-> 3,
      background_enabled |-> FALSE,
      background_color |-> RGBA(0, 0, 0, 128),
      background_padding |-> 10,
      line_spacing |-> 12,
      max_width_percent |-> 80 ]

\* str(self.custom_x or 0)
StrOrZero(o) == IF IsNone(o) \/ Val(o) = 0 THEN "0" ELSE ToString(Val(o))

\* the x and y of SubtitleStyle.get_position_filter
get_position_xy(s) ==
    CASE s.position = "bottom_center" ->
            << "(w-text_w)/2", "h-text_h-" \o ToString(s.margin_y) >>
      [] s.position = "bottom_left" ->
            << ToString(s.margin_x), "h-text_h-" \o ToString(s.margin_y) >>
      [] s.position = "bottom_right" ->
            << "w-text_w-" \o ToString(s.margin_x), "h-text_h-" \o ToString(s.margin_y) >>
      [] s.position = "top_center" ->
            << "(w-text_w)/2", ToString(s.margin_y) >>
      [] s.position = "top_left" ->
            << ToString(s.margin_x), ToString(s.margin_y) >>
      [] s.position = "top_right" ->
            << "w-text_w-" \o ToString(s.margin_x), ToString(s.margin_y) >>
      [] s.position = "center" ->
            << "(w-text_w)/2", "(h-text_h)/2" >>
      [] s.position = "custom" ->
            << StrOrZero(s.custom_x), StrOrZero(s.custom_y) >>
      [] OTHER ->
            << "(w-text_w)/2", "h-text_h-" \o ToString(s.margin_y) >>

\* SubtitleStyle.get_position_filter: f"x={x}:y={y}"
get_position_filter(s) ==
    [x |-> get_position_xy(s)[1], y |-> get_position_xy(s)[2],
     text |-> "x=" \o get_position_xy(s)[1] \o ":y=" \o get_position_xy(s)[2]]

\* position_map of convert_subtitle_style_to_overlay_style
position_map(position) ==
    CASE position \in {"bottom_center", "bottom_left", "bottom_right"} -> "bottom"
      [] position \in {"top_center", "top_left", "top_right"} -> "top"
      [] position \in {"center", "custom"} -> "center"
      [] OTHER -> "bottom"

\* TextOverlayVideoNode.convert_subtitle_style_to_overlay_style
convert_subtitle_style_to_overlay_style(ss) ==
    Override(TextOverlayStyle,
        [ position_preset |-> position_map(ss.position),
          margin_x |-> ss.margin_x,
          font_family |-> ss.font_family,
          font_size |-> ss.font_size,
          font_color |-> ss.font_color,
          font_bold |-> (ss.font_weight = "bold"),
          background_enabled |-> ss.background_enabled,
          background_color |->
              IF Len(ss.background_color.c) = 4
              THEN [tuple |-> TRUE, c |-> SubSeq(ss.background_color.c, 1, 3)]
              ELSE ss.background_color,
          background_opacity |->
              IF Len(ss.background_color.c) = 4
              THEN [num |-> ss.background_color.c[4].v, den |-> 255]
              ELSE [num |-> 8, den |-> 10],
          background_padding |-> ss.background_padding,
          enable_shadow |-> ss.shadow_enabled,
          shadow_color |-> ss.shadow_color,
          shadow_offset_x |-> ss.shadow_offset_x,
          shadow_offset_y |-> ss.shadow_offset_y,
          enable_border |-> (ss.outline_width > 0),
          border_color |-> ss.outline_color,
          border_width |-> ss.outline_width,
          line_spacing |-> TruncDiv(ss.line_spacing * 5, 10) ])

(***************************************************************************)
(* FontManager (services/font_manager.py).  A font name is the sequence of  *)
(* its characters; a character outside ASCII is written u<code point>.     *)
(***************************************************************************)
UpperChars ==
    << "A", "B", "C", "D", "E", "F", "G", "H", "I", "J", "K", "L", "M", "N", "O", "P", "Q",
    "R", "S", "T", "U", "V", "W", "X", "Y", "Z" >>
LowerChars ==
    << "a", "b", "c", "d", "e", "f", "g", "h", "i", "j", "k", "l", "m", "n", "o", "p", "q",
    "r", "s", "t", "u", "v", "w", "x", "y", "z" >>

\* str.lower() of one character and of a name
LowerChar(c) ==
    IF \E i \in 1..Len(UpperChars) : UpperChars[i] = c
    THEN LowerChars[CHOOSE i \in 1..Len(UpperChars) : UpperChars[i] = c]
    ELSE c
Lower(name) == [i \in 1..Len(name) |-> LowerChar(name[i])]

\* keyword in name
Contains(keyword, name) ==
    \E i \in 1..(Len(name) - Len(keyword) + 1) :
        SubSeq(name, i, i + Len(keyword) - 1) = keyword

\* the Python string of a name
Str(name) == Join(name, "")

chinese_chars ==
    << <<"u6587", "u6cc9">>,
       <<"u5fae", "u7c73", "u9ed1">>,
       <<"u6b63", "u9ed1">>,
       <<"u9ede", "u9663">>,
       <<"u7b49", "u5bec">>,
       <<"u9a5b">>,
       <<"u9a7f">>,
       <<"u6cc9">>,
       <<"u5fae", "u7c73">>,
       <<"u70b9", "u9635">>,
       <<"u7b49", "u5bbd">> >>
chinese_keywords ==
    << <<"w", "e", "n", "q", "u", "a", "n">>,
       <<"w", "q", "y">>,
       <<"m", "i", "c", "r", "o", " ", "h", "e", "i">>,
       <<"z", "e", "n", " ", "h", "e", "i">> >>
japanese_keywords ==
    << <<"j", "a", "p", "a", "n">>,
       <<"h", "i", "r", "a", "g", "i", "n", "o">>,
       <<"m", "i", "n", "c", "h", "o">>,
       <<"g", "o", "t", "h", "i", "c">>,
       <<"o", "s", "a", "k", "a">>,
       <<"y", "u", " ", "g", "o", "t", "h", "i", "c">>,
       <<"y", "u", " ", "m", "i", "n", "c", "h", "o">> >>
korean_keywords ==
    << <<"k", "o", "r", "e", "a">>,
       <<"m", "a", "l", "g", "u", "n">>,
       <<"g", "u", "l", "i", "m">>,
       <<"b", "a", "t", "a", "n", "g">> >>
arabic_keywords ==
    << <<"a", "r", "a", "b">>,
       <<"n", "a", "s", "k", "h">>,
       <<"k", "u", "f", "i">>,
       <<"a", "m", "i", "r", "i">> >>
symbol_keywords ==
    << <<"e", "m", "o", "j", "i">>,
       <<"s", "y", "m", "b", "o", "l">>,
       <<"a", "w", "e", "s", "o", "m", "e">>,
       <<"i", "c", "o", "n">>,
       <<"m", "a", "t", "e", "r", "i", "a", "l">>,
       <<"n", "e", "r", "d", " ", "f", "o", "n", "t">>,
       <<"s", "y", "m", "b", "o", "l", "s">> >>

priority_latin ==
    << <<"Arial", 100>>, <<"Helvetica", 98>>, <<"Helvetica Neue", 96>>, <<"Verdana", 94>>,
    <<"Tahoma", 92>>, <<"Calibri", 90>>, <<"Inter", 88>>, <<"Roboto", 86>>,
    <<"Open Sans", 84>>, <<"Lato", 82>>, <<"Lato Medium", 81>>, <<"Lato Light", 80>>,
    <<"Source Sans Pro", 79>>, <<"Nunito", 78>>, <<"Poppins", 76>>, <<"Montserrat", 74>>,
    <<"Ubuntu", 72>>, <<"Fira Sans", 70>>, <<"Liberation Sans", 68>>,
    <<"Liberation Sans Narrow", 67>>, <<"DejaVu Sans", 66>>, <<"Noto Sans", 64>>,
    <<"Oxygen", 62>>, <<"Times New Roman", 100>>, <<"Times", 98>>, <<"Georgia", 96>>,
    <<"Palatino", 94>>, <<"Book Antiqua", 92>>, <<"Garamond", 90>>, <<"Baskerville", 88>>,
    <<"Caslon", 86>>, <<"Source Serif Pro", 84>>, <<"Merriweather", 82>>,
    <<"Playfair Display", 80>>, <<"Lora", 78>>, <<"Liberation Serif", 76>>,
    <<"DejaVu Serif", 74>>, <<"Noto Serif", 72>>, <<"Fira Code", 100>>,
    <<"JetBrains Mono", 98>>, <<"Source Code Pro", 96>>, <<"Monaco", 94>>,
    <<"Consolas", 92>>, <<"Menlo", 90>>, <<"Cascadia Code", 88>>, <<"Hack", 86>>,
    <<"Inconsolata", 84>>, <<"Ubuntu Mono", 82>>, <<"DejaVu Sans Mono", 80>>,
    <<"Liberation Mono", 78>>, <<"Courier New", 76>>, <<"Courier", 74>>, <<"Impact", 100>>,
    <<"Arial Black", 95>>, <<"Bebas Neue", 90>>, <<"Oswald", 85>>, <<"Russo One", 80>>,
    <<"Anton", 75>>, <<"Comic Sans MS", 70>>, <<"Papyrus", 60>>, <<"Lato Black", 77>>,
    <<"Lato Bold", 76>>, <<"Lato Heavy", 75>>, <<"Lato Semibold", 74>>, <<"Lato Thin", 73>> >>
priority_chinese ==
    << <<"WenQuanYi Zen Hei", 100>>, <<"WenQuanYi Micro Hei", 95>>,
    <<"Noto Sans CJK SC", 90>>, <<"Noto Serif CJK SC", 85>>, <<"Source Han Sans CN", 80>>,
    <<"Source Han Serif CN", 75>>, <<"SimHei", 70>>, <<"SimSun", 68>>,
    <<"Microsoft YaHei", 65>>, <<"PingFang SC", 60>>, <<"Hiragino Sans GB", 55>> >>
priority_japanese ==
    << <<"Noto Sans CJK JP", 100>>, <<"Noto Serif CJK JP", 95>>,
    <<"Hiragino Kaku Gothic Pro", 90>>, <<"Hiragino Mincho Pro", 85>>, <<"Yu Gothic", 80>>,
    <<"Yu Mincho", 75>> >>
priority_korean ==
    << <<"Noto Sans CJK KR", 100>>, <<"Noto Serif CJK KR", 95>>, <<"Malgun Gothic", 90>>,
    <<"Gulim", 85>>, <<"Batang", 80>> >>
priority_symbol ==
    << <<"FontAwesome", 100>>, <<"Material Icons", 95>>, <<"Symbols Nerd Font", 90>>,
    <<"Emoji One", 85>> >>

CharOrder ==
    << " ", "A", "B", "C", "D", "E", "F", "G", "H", "I", "J", "K", "L", "M", "N", "O", "P",
    "Q", "R", "S", "T", "U", "V", "W", "X", "Y", "Z", "[", "]", "a", "b", "c", "d", "e",
    "f", "g", "h", "i", "j", "k", "l", "m", "n", "o", "p", "q", "r", "s", "t", "u", "v",
    "w", "x", "y", "z", "u5bbd", "u5bec", "u5fae", "u6587", "u6b63", "u6cc9", "u70b9",
    "u7b49", "u7c73", "u9635", "u9663", "u9a5b", "u9a7f", "u9ed1", "u9ede" >>

\* any(keyword in name for keyword in keywords)
AnyKeyword(keywords, name) == \E i \in 1..Len(keywords) : Contains(keywords[i], name)

\* FontManager._detect_font_language
_detect_font_language(font_name) ==
    LET font_lower == Lower(font_name)
    IN  IF AnyKeyword(chinese_chars, font_name) THEN "chinese"
        ELSE IF AnyKeyword(chinese_keywords, font_lower) THEN "chinese"
        ELSE IF Contains(<<"j", "p">>, font_lower) THEN "japanese"
        ELSE IF AnyKeyword(japanese_keywords, font_lower) THEN "japanese"
        ELSE IF Contains(<<"k", "r">>, font_lower) THEN "korean"
        ELSE IF AnyKeyword(korean_keywords, font_lower) THEN "korean"
        ELSE IF Contains(<<"s", "c">>, font_lower) \/ Contains(<<"c", "n">>, font_lower)
             THEN "chinese"
        ELSE IF \/ Contains(<<"h", "k">>, font_lower)
                \/ Contains(<<"t", "c">>, font_lower)
                \/ Contains(<<"t", "w">>, font_lower)
             THEN "chinese"
        ELSE IF Contains(<<"c", "j", "k">>, font_lower) THEN "chinese"
        ELSE IF AnyKeyword(arabic_keywords, font_lower) THEN "arabic"
        ELSE IF AnyKeyword(symbol_keywords, font_lower) THEN "symbol"
        ELSE "latin"

language_order == <<"latin", "chinese", "japanese", "korean", "arabic", "symbol">>

\* font_priorities.get(lang, {})
font_priorities(lang) ==
    CASE lang = "latin" -> priority_latin
      [] lang = "chinese" -> priority_chinese
      [] lang = "japanese" -> priority_japanese
      [] lang = "korean" -> priority_korean
      [] lang = "symbol" -> priority_symbol
      [] OTHER -> <<>>

\* font in priority_fonts, priority_fonts[font]
InPriority(priority_fonts, font) ==
    \E i \in 1..Len(priority_fonts) : priority_fonts[i][1] = Str(font)
PriorityOf(priority_fonts, font) ==
    priority_fonts[CHOOSE i \in 1..Len(priority_fonts) : priority_fonts[i][1] = Str(font)][2]

\* ord(c), and a < b on Python strings
Ord(c) == CHOOSE i \in 1..Len(CharOrder) : CharOrder[i] = c
RECURSIVE StrLess(_, _)
StrLess(a, b) ==
    IF b = <<>> THEN FALSE
    ELSE IF a = <<>> THEN TRUE
    ELSE IF Ord(a[1]) # Ord(b[1]) THEN Ord(a[1]) < Ord(b[1])
    ELSE StrLess(Tail(a), Tail(b))

\* list.sort(key=lambda x: x[1], reverse=True): stable, equal scores keep
\* the order they had in the list
RECURSIVE SortByScore(_)
SortByScore(found) ==
    IF found = <<>> THEN <<>>
    ELSE LET x == found[Len(found)]
             s == SortByScore(SubSeq(found, 1, Len(found) - 1))
             k == Cardinality({i \in 1..Len(s) : s[i][2] >= x[2]})
         IN  SubSeq(s, 1, k) \o <<x>> \o SubSeq(s, k + 1, Len(s))

\* list.sort() of names
RECURSIVE SortNames(_)
SortNames(names) ==
    IF names = <<>> THEN <<>>
    ELSE LET x == names[Len(names)]
             s == SortNames(SubSeq(names, 1, Len(names) - 1))
             k == Cardinality({i \in 1..Len(s) : ~StrLess(x, s[i])})
         IN  SubSeq(s, 1, k) \o <<x>> \o SubSeq(s, k + 1, Len(s))

\* the fonts of one language, in the order of the list
FontsOfLanguage(fonts, lang) ==
    LET IsLang(f) == _detect_font_language(f) = lang
    IN  SelectSeq(fonts, IsLang)

\* the fonts of one language as _categorize_fonts orders them
RankLanguage(fonts, lang) ==
    LET lang_fonts == FontsOfLanguage(fonts, lang)
        priority_fonts == font_priorities(lang)
        HasPriority(f) == InPriority(priority_fonts, f)
        NoPriority(f) == ~InPriority(priority_fonts, f)
        in_table == SelectSeq(lang_fonts, HasPriority)
        priority_found ==
            [i \in 1..Len(in_table) |-> <<in_table[i], PriorityOf(priority_fonts, in_table[i])>>]
        sorted == SortByScore(priority_found)
        other_fonts == SelectSeq(lang_fonts, NoPriority)
    IN  [i \in 1..Len(sorted) |-> sorted[i][1]] \o SortNames(other_fonts)

\* FontManager._categorize_fonts
RECURSIVE CategorizeFrom(_, _)
CategorizeFrom(fonts, k) ==
    IF k > Len(language_order) THEN <<>>
    ELSE RankLanguage(fonts, language_order[k]) \o CategorizeFrom(fonts, k + 1)
_categorize_fonts(fonts) == CategorizeFrom(fonts, 1)

\* language_names of get_fonts_with_language_labels
language_names(lang) ==
    CASE lang = "latin" -> <<"E", "N">>
      [] lang = "chinese" -> <<"C", "N">>
      [] lang = "japanese" -> <<"J", "P">>
      [] lang = "korean" -> <<"K", "R">>
      [] lang = "arabic" -> <<"A", "R">>
      [] lang = "symbol" -> <<"S", "Y", "M">>

\* f"[{label}] {font}"
labeled_font(label, font) == <<"[">> \o label \o <<"]", " ">> \o font

\* FontManager.get_fonts_with_language_labels over the available fonts
RECURSIVE LabelsFrom(_, _)
LabelsFrom(all_fonts, k) ==
    IF k > Len(language_order) THEN <<>>
    ELSE LET lang == language_order[k]
             of_lang == FontsOfLanguage(all_fonts, lang)
         IN  [i \in 1..Len(of_lang) |-> labeled_font(language_names(lang), of_lang[i])]
             \o LabelsFrom(all_fonts, k + 1)
get_fonts_with_language_labels(all_fonts) == LabelsFrom(all_fonts, 1)

\* a variant that cuts at the first "]" and keeps the blank after it
extract_font_name_from_label_bracket(labeled) ==
    IF Contains(<<"]">>, labeled)
    THEN LET i == CHOOSE j \in 1..Len(labeled) :
                      /\ labeled[j] = "]"
                      /\ \A h \in 1..(j - 1) : labeled[h] # "]"
         IN  SubSeq(labeled, i + 1, Len(labeled))
    ELSE labeled

\* FontManager.extract_font_name_from_label: split('] ', 1)[1]
extract_font_name_from_label(labeled) ==
    IF Contains(<<"]", " ">>, labeled)
    THEN LET i == CHOOSE j \in 1..Len(labeled) - 1 :
                      /\ SubSeq(labeled, j, j + 1) = <<"]", " ">>
                      /\ \A h \in 1..(j - 1) : SubSeq(labeled, h, h + 1) # <<"]", " ">>
         IN  SubSeq(labeled, i + 2, Len(labeled))
    ELSE labeled

_get_fallback_fonts ==
    << <<"D", "e", "j", "a", "V", "u", " ", "S", "a", "n", "s">>,
       <<"D", "e", "j", "a", "V", "u", " ", "S", "e", "r", "i", "f">>,
       <<"D", "e", "j", "a", "V", "u", " ", "S", "a", "n", "s", " ", "M", "o", "n", "o">>,
       <<"L", "i", "b", "e", "r", "a", "t", "i", "o", "n", " ", "S", "a", "n", "s">>,
       <<"L", "i", "b", "e", "r", "a", "t", "i", "o", "n", " ", "S", "e", "r", "i", "f">>,
       <<"L", "i", "b", "e", "r", "a", "t", "i", "o", "n", " ", "M", "o", "n", "o">>,
       <<"W", "e", "n", "Q", "u", "a", "n", "Y", "i", " ", "Z", "e", "n", " ", "H", "e", "i">>,
       <<"W", "e", "n", "Q", "u", "a", "n", "Y", "i", " ", "M", "i", "c", "r", "o", " ", "H", "e", "i">>,
       <<"N", "o", "t", "o", " ", "S", "a", "n", "s">>,
       <<"N", "o", "t", "o", " ", "S", "e", "r", "i", "f">>,
       <<"L", "a", "t", "o">> >>

\* the family names used as inputs
Arial == <<"A", "r", "i", "a", "l">>
Impact == <<"I", "m", "p", "a", "c", "t">>
Lato == <<"L", "a", "t", "o">>
Cantarell == <<"C", "a", "n", "t", "a", "r", "e", "l", "l">>
Abel == <<"A", "b", "e", "l">>
WenQuanYiZenHei == <<"W", "e", "n", "Q", "u", "a", "n", "Y", "i", " ", "Z", "e", "n", " ", "H", "e", "i">>
NotoSansCJKJP == <<"N", "o", "t", "o", " ", "S", "a", "n", "s", " ", "C", "J", "K", " ", "J", "P">>
MalgunGothic == <<"M", "a", "l", "g", "u", "n", " ", "G", "o", "t", "h", "i", "c">>
WenQuanYiNative == <<"u6587", "u6cc9", "u9a5b", "u6b63", "u9ed1">>

FontUniverse ==
    {Arial, Impact, Lato, Cantarell, Abel, WenQuanYiZenHei, NotoSansCJKJP,
     MalgunGothic, WenQuanYiNative}

FontIdle ==
    /\ family_names = <<>>
    /\ languages = None
    /\ ranked = None
    /\ labelled = None
    /\ stripped = None

\* FontManager.__init__, before any call
CatalogIdle ==
    /\ _available_fonts = None
    /\ catalog_queries = 0
    /\ catalog_calls = 0
    /\ returned_fonts = None
    /\ first_fonts = None
    /\ last_query = "none"
    /\ _categorized_fonts = None
    /\ labeled_fonts = None

\* the generic sans-serif file every resolution falls back to
DejaVuSans == "/usr/share/fonts/truetype/dejavu/DejaVuSans.ttf"

\* FontManager.__init__ on a machine with the DejaVu fonts and no
\* font_config.json
PathIdle ==
    /\ files = {DejaVuSans}
    /\ font_config = None
    /\ _font_cache = <<>>
    /\ path_request = None
    /\ returned_path = None
    /\ path_lookup = None

Threads == 1..NumThreads

\* font_manager.py was imported and no thread has asked for font data
ThreadsIdle ==
    /\ _font_manager = None
    /\ manager_fonts = <<>>
    /\ tpc = [t \in Threads |-> "start"]
    /\ held = [t \in Threads |-> None]
    /\ observed = [t \in Threads |-> None]
    /\ fc_running = {}
    /\ fc_runs = 0

\* whisper_model_node.py was imported and load_model was never called
WhisperIdle ==
    /\ _model_cache = <<>>
    /\ services = 0
    /\ wpc = [t \in Threads |-> "start"]
    /\ wargs = [t \in Threads |-> None]
    /\ wresult = [t \in Threads |-> None]
    /\ model_loads = <<>>
    /\ service_state = <<>>
    /\ returned_services = {}
    /\ transcribed = "none"

\* no SubtitleStyle was made
PresetsIdle ==
    /\ heap = <<>>
    /\ preset_call = None
    /\ custom_style = None

\* the video to process is on the disk, no pipeline has run
PipelineIdle ==
    /\ disk = {[stem |-> "clip", ext |-> "mp4"]}
    /\ now = 0
    /\ pipeline_result = None

LaterIdle == ThreadsIdle /\ WhisperIdle /\ PresetsIdle /\ PipelineIdle

\* nothing outside the text overlay has happened
RestIdle == FontIdle /\ CatalogIdle /\ PathIdle /\ LaterIdle

(***************************************************************************)
(* Inputs.                                                                 *)
(***************************************************************************)
NotValidated == [ok |-> FALSE, field |-> "unset", reason |-> "", index |-> 0]
NoPos == [x |-> "", y |-> "", text |-> ""]
NoOPos == <<>>

ComponentSamples == {I(-1), I(0), I(255), I(256), F(128)}
\* every tuple of 0..MaxColorLen sampled components, and one list
ColorSamples ==
    {[tuple |-> TRUE, c |-> cs] :
        cs \in UNION {[1..k -> ComponentSamples] : k \in 0..MaxColorLen}}
    \cup {[tuple |-> FALSE, c |-> <<I(0), I(0), I(0)>>]}
\* a valid colour, one with a component out of range, one too short
FewColors == {RGB(0, 0, 0), RGB(300, 0, 0), [tuple |-> TRUE, c |-> <<I(0), I(0)>>]}
OpacitySamples ==
    {[num |-> -1, den |-> 100], [num |-> 0, den |-> 100],
     [num |-> 100, den |-> 100], [num |-> 101, den |-> 100]}
TextSamples == {<<"a", ":", "b", "'">>}
FontFiles == {"/fonts/regular.ttf", "/fonts/fallback.ttf"}
Durations == {10}

\* styles with any combination of violations
ManyViolations ==
    {Override(TextOverlayStyle,
        [start_time |-> st, end_time |-> et, font_color |-> fc,
         background_color |-> bc, shadow_color |-> sc, border_color |-> oc,
         background_opacity |-> op, font_size |-> fs]) :
        st \in {-1, 0, 5}, et \in {None, Some(3), Some(5), Some(10)},
        fc \in FewColors, bc \in FewColors, sc \in FewColors, oc \in FewColors,
        op \in OpacitySamples, fs \in {-1, 0, 24}}

\* default styles with one colour replaced by any sampled colour
OneColor ==
    {[TextOverlayStyle EXCEPT ![f] = c] :
        f \in {"font_color", "background_color", "shadow_color", "border_color"},
        c \in ColorSamples}

\* valid styles with any combination of effect flags and layer counts
EffectStyles ==
    {Override(TextOverlayStyle,
        [glow_enabled |-> g, double_outline_enabled |-> d, neon_enabled |-> n,
         shadow_3d_enabled |-> s3, glitch_enabled |-> gl,
         background_enabled |-> bg, enable_border |-> bo, glitch_color_shift |-> cs,
         neon_glow_layers |-> nl, shadow_3d_layers |-> sl, start_time |-> st]) :
        g \in BOOLEAN, d \in BOOLEAN, n \in BOOLEAN, s3 \in BOOLEAN, gl \in BOOLEAN,
        bg \in BOOLEAN, bo \in BOOLEAN, cs \in BOOLEAN,
        nl \in 0..MaxLayers, sl \in 0..MaxLayers, st \in {0, 5}}

(***************************************************************************)
(* Applications of the pure operations.                                    *)
(***************************************************************************)
Idle ==
    /\ pc = "idle"
    /\ entry = "none"
    /\ ext = <<>>
    /\ outcome = "none"
    /\ video_info = None

NothingComputed ==
    /\ vres = NotValidated
    /\ cmd = NoCmd
    /\ pos = NoPos
    /\ opos = NoOPos

\* TextOverlayService.validate_style(style)
ValidateStyle ==
    /\ UNCHANGED restVars
    /\ pc = "idle"
    /\ vres = NotValidated
    /\ vres' = validate_style(style)
    /\ UNCHANGED <<style, origin, sub, cmd, pos, opos, pc, entry, ext, outcome, video_info>>

\* TextOverlayService._build_ffmpeg_command(..., style, ...)
BuildCommand ==
    /\ UNCHANGED restVars
    /\ pc = "idle"
    /\ cmd = NoCmd
    /\ \E text \in TextSamples, font_path \in FontFiles, video_duration \in Durations :
          cmd' = _build_ffmpeg_command(style, text, font_path, video_duration)
    /\ UNCHANGED <<style, origin, sub, vres, pos, opos, pc, entry, ext, outcome, video_info>>

InitValidate ==
    /\ style \in ManyViolations \cup OneColor
    /\ origin = "given"
    /\ sub = SubtitleStyle
    /\ NothingComputed
    /\ Idle
    /\ RestIdle

SpecValidate == InitValidate /\ [][ValidateStyle]_vars

InitCompile ==
    /\ style \in EffectStyles
    /\ origin = "given"
    /\ sub = SubtitleStyle
    /\ NothingComputed
    /\ Idle
    /\ RestIdle

NextCompile ==
    \/ ValidateStyle
    \/ BuildCommand

SpecCompile == InitCompile /\ [][NextCompile]_vars

(***************************************************************************)
(* The position resolvers and the style conversion.                        *)
(***************************************************************************)
Positions ==
    {"bottom_center", "bottom_left", "bottom_right", "top_center", "top_left",
     "top_right", "center", "custom"}
SubtitleInputs ==
    {Override(SubtitleStyle,
        [position |-> p, margin_x |-> mx, margin_y |-> my,
         custom_x |-> cx, custom_y |-> cy]) :
        p \in Positions, mx \in {0, 30}, my \in {0, 25},
        cx \in {None, Some(0), Some(100), Some(-5)},
        cy \in {None, Some(0), Some(200)}}
PositionPresets ==
    {"bottom", "bottom_low", "bottom_high", "center", "center_low", "center_high",
     "top", "top_low", "top_high", "bottom_center", "top_left"}
OverlayInputs ==
    {Override(TextOverlayStyle,
        [position_preset |-> p, margin_x |-> mx, text_alignment |-> a]) :
        p \in PositionPresets, mx \in {-10, 0, 50}, a \in {"left", "center", "right"}}

\* SubtitleStyle.get_position_filter(sub)
ResolveSubtitle ==
    /\ UNCHANGED restVars
    /\ pos = NoPos
    /\ pos' = get_position_filter(sub)
    /\ UNCHANGED <<style, origin, sub, vres, cmd, opos, pc, entry, ext, outcome, video_info>>

\* TextOverlayStyle.get_position_expression(style)
ResolveOverlay ==
    /\ UNCHANGED restVars
    /\ opos = NoOPos
    /\ opos' = get_position_expression(style)
    /\ UNCHANGED <<style, origin, sub, vres, cmd, pos, pc, entry, ext, outcome, video_info>>

\* TextOverlayVideoNode.convert_subtitle_style_to_overlay_style(sub)
ConvertStyle ==
    /\ UNCHANGED restVars
    /\ origin = "given"
    /\ style = TextOverlayStyle
    /\ opos = NoOPos
    /\ cmd = NoCmd
    /\ style' = convert_subtitle_style_to_overlay_style(sub)
    /\ origin' = "converted"
    /\ UNCHANGED <<sub, vres, cmd, pos, opos, pc, entry, ext, outcome, video_info>>

InitPos ==
    /\ \/ sub \in SubtitleInputs /\ style = TextOverlayStyle
       \/ sub = SubtitleStyle /\ style \in OverlayInputs
    /\ origin = "given"
    /\ NothingComputed
    /\ Idle
    /\ RestIdle

NextPos ==
    \/ ResolveSubtitle
    \/ ResolveOverlay
    \/ ConvertStyle
    \/ BuildCommand

SpecPos == InitPos /\ [][NextPos]_vars

(***************************************************************************)
(* The TikTok presets of PresetStyles (core/subtitle_style.py) and the     *)
(* option tables of the node.  The node's option labels are written with   *)
(* their English names.                                                    *)
(***************************************************************************)
tiktok_classic ==
    Override(SubtitleStyle,
        [ position |-> "bottom_center", margin_y |-> 25, margin_x |-> 30,
          font_size |-> 42, font_weight |-> "bold",
          font_family |-> "Arial Black,WenQuanYi Zen Hei",
          font_color |-> RGB(255, 255, 255),
          outline_width |-> 4, outline_color |-> RGB(0, 0, 0),
          shadow_enabled |-> TRUE, shadow_offset_x |-> 3, shadow_offset_y |-> 3,
          shadow_blur |-> 5, shadow_color |-> RGB(0, 0, 0),
          background_enabled |-> FALSE,
          max_width_percent |-> 85, line_spacing |-> 13 ])
tiktok_neon ==
    Override(SubtitleStyle,
        [ position |-> "center", margin_y |-> 40, margin_x |-> 25,
          font_size |-> 38, font_weight |-> "bold",
          font_family |-> "Arial,Roboto,WenQuanYi Zen Hei",
          font_color |-> RGB(255, 255, 255),
          outline_width |-> 3, outline_color |-> RGB(255, 20, 147),
          shadow_enabled |-> TRUE, shadow_offset_x |-> 0, shadow_offset_y |-> 0,
          shadow_blur |-> 10, shadow_color |-> RGB(255, 20, 147),
          background_enabled |-> TRUE, background_color |-> RGBA(20, 20, 40, 120),
          background_padding |-> 15,
          max_width_percent |-> 80, line_spacing |-> 12 ])
tiktok_bold ==
    Override(SubtitleStyle,
        [ position |-> "bottom_center", margin_y |-> 30, margin_x |-> 20,
          font_size |-> 48, font_weight |-> "bold",
          font_family |-> "Impact,Arial Black,WenQuanYi Zen Hei Bold",
          font_color |-> RGB(255, 255, 255),
          outline_width |-> 6, outline_color |-> RGB(0, 0, 0),
          shadow_enabled |-> TRUE, shadow_offset_x |-> 4, shadow_offset_y |-> 4,
          shadow_blur |-> 8, shadow_color |-> RGB(0, 0, 0),
          max_width_percent |-> 90, line_spacing |-> 11 ])
tiktok_colorful ==
    Override(SubtitleStyle,
        [ position |-> "center", margin_y |-> 35, margin_x |-> 30,
          font_size |-> 40, font_weight |-> "bold",
          font_family |-> "Arial Rounded,Arial,WenQuanYi Zen Hei",
          font_color |-> RGB(255, 215, 0),
          outline_width |-> 3, outline_color |-> RGB(255, 69, 0),
          shadow_enabled |-> TRUE, shadow_offset_x |-> 2, shadow_offset_y |-> 2,
          shadow_blur |-> 6, shadow_color |-> RGB(255, 105, 180),
          background_enabled |-> TRUE, background_color |-> RGBA(255, 255, 255, 80),
          background_padding |-> 12,
          max_width_percent |-> 82 ])
tiktok_minimal ==
    Override(SubtitleStyle,
        [ position |-> "bottom_center", margin_y |-> 35, margin_x |-> 40,
          font_size |-> 36, font_weight |-> "bold",
          font_family |-> "Helvetica,Arial,WenQuanYi Zen Hei",
          font_color |-> RGB(255, 255, 255),
          outline_width |-> 2, outline_color |-> RGB(0, 0, 0),
          shadow_enabled |-> TRUE, shadow_offset_x |-> 1, shadow_offset_y |-> 1,
          shadow_blur |-> 3, shadow_color |-> RGB(0, 0, 0),
          background_enabled |-> FALSE,
          max_width_percent |-> 75, line_spacing |-> 14 ])
tiktok_story ==
    Override(SubtitleStyle,
        [ position |-> "center", margin_y |-> 25, margin_x |-> 35,
          font_size |-> 34, font_weight |-> "bold",
          font_family |-> "Georgia,Times,SimSun,WenQuanYi Zen Hei",
          font_color |-> RGB(255, 248, 220),
          outline_width |-> 2, outline_color |-> RGB(139, 69, 19),
          shadow_enabled |-> TRUE, shadow_offset_x |-> 2, shadow_offset_y |-> 2,
          shadow_blur |-> 4, shadow_color |-> RGB(101, 67, 33),
          background_enabled |-> TRUE, background_color |-> RGBA(139, 69, 19, 100),
          background_padding |-> 14,
          max_width_percent |-> 85, line_spacing |-> 15 ])
tiktok_dance ==
    Override(SubtitleStyle,
        [ position |-> "top_center", margin_y |-> 25, margin_x |-> 25,
          font_size |-> 44, font_weight |-> "bold",
          font_family |-> "Impact,Arial Black,WenQuanYi Zen Hei",
          font_color |-> RGB(255, 255, 255),
          outline_width |-> 5, outline_color |-> RGB(255, 0, 128),
          shadow_enabled |-> TRUE, shadow_offset_x |-> 3, shadow_offset_y |-> 3,
          shadow_blur |-> 7, shadow_color |-> RGB(255, 0, 128),
          background_enabled |-> TRUE, background_color |-> RGBA(0, 0, 0, 150),
          background_padding |-> 10,
          max_width_percent |-> 80, line_spacing |-> 12 ])
tiktok_luxury ==
    Override(SubtitleStyle,
        [ position |-> "center", margin_y |-> 30, margin_x |-> 40,
          font_size |-> 38, font_weight |-> "bold",
          font_family |-> "Times New Roman,Georgia,SimSun",
          font_color |-> RGB(255, 215, 0),
          outline_width |-> 3, outline_color |-> RGB(184, 134, 11),
          shadow_enabled |-> TRUE, shadow_offset_x |-> 2, shadow_offset_y |-> 2,
          shadow_blur |-> 8, shadow_color |-> RGB(139, 69, 19),
          background_enabled |-> TRUE, background_color |-> RGBA(0, 0, 0, 180),
          background_padding |-> 16,
          max_width_percent |-> 78, line_spacing |-> 13 ])

\* TextOverlayVideoNode.get_tiktok_preset_style: None for an unknown name
get_tiktok_preset_style(preset_name) ==
    CASE preset_name = "tiktok_classic" -> Some(tiktok_classic)
      [] preset_name = "tiktok_neon" -> Some(tiktok_neon)
      [] preset_name = "tiktok_bold" -> Some(tiktok_bold)
      [] preset_name = "tiktok_colorful" -> Some(tiktok_colorful)
      [] preset_name = "tiktok_minimal" -> Some(tiktok_minimal)
      [] preset_name = "tiktok_story" -> Some(tiktok_story)
      [] preset_name = "tiktok_dance" -> Some(tiktok_dance)
      [] preset_name = "tiktok_luxury" -> Some(tiktok_luxury)
      [] OTHER -> None

\* TextOverlayVideoNode.get_color_rgb: color_map.get(color_name, (0, 0, 0))
get_color_rgb(color_name) ==
    CASE color_name = "black" -> RGB(0, 0, 0)
      [] color_name = "white" -> RGB(255, 255, 255)
      [] color_name = "red" -> RGB(255, 0, 0)
      [] color_name = "green" -> RGB(0, 255, 0)
      [] color_name = "blue" -> RGB(0, 0, 255)
      [] color_name = "yellow" -> RGB(255, 255, 0)
      [] color_name = "cyan" -> RGB(0, 255, 255)
      [] color_name = "magenta" -> RGB(255, 0, 255)
      [] color_name = "orange" -> RGB(255, 165, 0)
      [] color_name = "purple" -> RGB(128, 0, 128)
      [] color_name = "gray" -> RGB(128, 128, 128)
      [] color_name = "darkgray" -> RGB(64, 64, 64)
      [] color_name = "lightgray" -> RGB(192, 192, 192)
      [] color_name = "transparent" -> RGB(0, 0, 0)
      [] OTHER -> RGB(0, 0, 0)

\* TextOverlayVideoNode.get_position_preset: position_map.get(name, "bottom")
get_position_preset(position_name) ==
    IF position_name \in {"bottom", "bottom_low", "bottom_high", "center", "center_low",
                          "center_high", "top", "top_low", "top_high"}
    THEN position_name ELSE "bottom"

\* TextOverlayVideoNode.get_text_alignment: alignment_map.get(name, "center")
get_text_alignment(alignment_name) ==
    IF alignment_name \in {"center", "left", "right"} THEN alignment_name ELSE "center"

\* TextOverlayVideoNode.apply_visual_effect (glow_spread is set and never read)
apply_visual_effect(s, effect_name) ==
    CASE effect_name = "glow" ->
            Override(s, [glow_enabled |-> TRUE, glow_color |-> RGB(255, 255, 255),
                         glow_intensity |-> 8])
      [] effect_name = "double_outline" ->
            Override(s, [double_outline_enabled |-> TRUE,
                         outline_inner_width |-> 2,
                         outline_inner_color |-> RGB(255, 255, 255),
                         outline_outer_width |-> 5,
                         outline_outer_color |-> RGB(0, 0, 0)])
      [] effect_name = "neon" ->
            Override(s, [neon_enabled |-> TRUE, neon_base_color |-> RGB(255, 20, 147),
                         neon_glow_layers |-> 3, neon_intensity |-> 10])
      [] effect_name = "shadow_3d" ->
            Override(s, [shadow_3d_enabled |-> TRUE, shadow_3d_layers |-> 5,
                         shadow_3d_depth |-> 3, shadow_3d_angle |-> 225])
      [] effect_name = "glitch" ->
            Override(s, [glitch_enabled |-> TRUE, glitch_displacement |-> 3,
                         glitch_color_shift |-> TRUE])
      [] OTHER -> s

\* the manually configured style of process_text_overlay
manual_style(in) ==
    Override(TextOverlayStyle,
        [ position_preset |-> get_position_preset(in.position),
          font_family |-> in.font_family,
          font_size |-> in.font_size,
          font_color |-> get_color_rgb(in.font_color),
          background_color |-> get_color_rgb(in.background_color),
          background_opacity |->
              IF in.background_color # "transparent"
              THEN in.background_opacity ELSE [num |-> 0, den |-> 100],
          background_enabled |->
              in.enable_background /\ in.background_color # "transparent",
          font_bold |-> in.font_bold,
          text_alignment |-> get_text_alignment(in.text_alignment),
          enable_shadow |-> in.enable_shadow,
          enable_border |-> in.enable_border,
          margin_x |-> in.margin_x,
          line_spacing |-> in.line_spacing ])

(***************************************************************************)
(* The two entry points: the node's process_text_overlay and the service's *)
(* add_text_overlay.  ext records, in order, every temp file, subprocess   *)
(* and font lookup.                                                        *)
(***************************************************************************)
PresetNames == {"no_preset", "tiktok_classic", "tiktok_neon", "tiktok_dance", "missing"}
EffectNames == {"no_effect", "glow", "double_outline", "neon", "shadow_3d", "glitch"}
NodeInputs ==
    [ preset : PresetNames,
      position : {"center_high"},
      font_family : {"Arial"},
      font_size : {0, 24},
      font_color : {"white"},
      background_color : {"black", "transparent"},
      background_opacity : {[num |-> 80, den |-> 100], [num |-> 101, den |-> 100]},
      effect : EffectNames,
      enable_background : {TRUE},
      font_bold : {FALSE},
      text_alignment : {"left"},
      enable_shadow : {FALSE},
      enable_border : {TRUE},
      margin_x : {50},
      line_spacing : {4} ]

\* styles a caller hands to add_text_overlay: valid and invalid ones
ServiceStyles ==
    { TextOverlayStyle,
      [TextOverlayStyle EXCEPT !.font_size = 0],
      [TextOverlayStyle EXCEPT !.background_opacity = [num |-> 101, den |-> 100]],
      [TextOverlayStyle EXCEPT !.start_time = -1],
      [TextOverlayStyle EXCEPT !.font_color = RGB(300, 0, 0)],
      [TextOverlayStyle EXCEPT !.glow_enabled = TRUE] }

\* FontManager.get_font_path: the cache, then the font configuration, then
\* fc-match, then the fallback table
FontLookups ==
    { [events |-> <<>>, path |-> "/fonts/regular.ttf"],
      [events |-> <<"font_catalog">>, path |-> "/fonts/regular.ttf"],
      [events |-> <<"font_catalog", "fc-match">>, path |-> "/fonts/regular.ttf"],
      [events |-> <<"font_catalog", "fc-match">>, path |-> "/fonts/fallback.ttf"] }

\* process_text_overlay up to its first external interaction: the style is
\* built, the position expression is logged and the style is validated
NodeCall ==
    /\ UNCHANGED restVars
    /\ pc = "idle"
    /\ entry = "none"
    /\ entry' = "node"
    /\ \E in \in NodeInputs :
          LET preset == get_tiktok_preset_style(in.preset)
              built == IF in.preset # "no_preset"
                       THEN convert_subtitle_style_to_overlay_style(Val(preset))
                       ELSE manual_style(in)
              s == IF in.effect # "no_effect"
                   THEN apply_visual_effect(built, in.effect) ELSE built
          IN  IF in.preset # "no_preset" /\ IsNone(preset)
              THEN /\ pc' = "done"
                   /\ outcome' = "preset_not_found"
                   /\ UNCHANGED <<style, origin, sub, opos, vres>>
              ELSE /\ style' = s
                   /\ origin' = IF in.preset # "no_preset" THEN "converted" ELSE "given"
                   /\ sub' = IF in.preset # "no_preset" THEN Val(preset) ELSE sub
                   /\ opos' = get_position_expression(s)
                   /\ vres' = validate_style(s)
                   /\ IF validate_style(s).ok
                      THEN pc' = "node_temp_files" /\ outcome' = outcome
                      ELSE pc' = "done" /\ outcome' = "validation_error"
    /\ UNCHANGED <<cmd, pos, ext, video_info>>

\* the two NamedTemporaryFile(delete=False) of process_text_overlay
NodeTempFiles ==
    /\ UNCHANGED restVars
    /\ pc = "node_temp_files"
    /\ ext' = ext \o <<"temp_file", "temp_file">>
    /\ pc' = "node_images_to_video"
    /\ UNCHANGED <<style, origin, sub, vres, cmd, pos, opos, entry, outcome, video_info>>

\* _images_to_video, and the finally clause when it fails
NodeImagesToVideo ==
    /\ UNCHANGED restVars
    /\ pc = "node_images_to_video"
    /\ \E success \in BOOLEAN :
          IF success
          THEN /\ ext' = ext \o <<"temp_file", "ffmpeg">>
               /\ pc' = "svc_exists"
               /\ outcome' = outcome
          ELSE /\ ext' = ext \o <<"temp_file", "ffmpeg", "unlink">>
               /\ pc' = "done"
               /\ outcome' = "images_to_video_failed"
    /\ UNCHANGED <<style, origin, sub, vres, cmd, pos, opos, entry, video_info>>

\* a caller invokes add_text_overlay with its own style
ServiceCall ==
    /\ UNCHANGED restVars
    /\ pc = "idle"
    /\ entry = "none"
    /\ entry' = "service"
    /\ pc' = "svc_exists"
    /\ UNCHANGED <<style, origin, sub, vres, cmd, pos, opos, ext, outcome, video_info>>

\* add_text_overlay returns ok after the interactions in events
SvcReturn(ok, events) ==
    IF entry = "service"
    THEN /\ pc' = "done"
         /\ outcome' = IF ok THEN "true" ELSE "false"
         /\ ext' = ext \o events
    ELSE IF ok
         THEN /\ pc' = "node_video_to_images"
              /\ outcome' = outcome
              /\ ext' = ext \o events
         ELSE /\ pc' = "done"
              /\ outcome' = "overlay_failed"
              /\ ext' = ext \o events \o <<"unlink">>

\* add_text_overlay: os.path.exists(video_path); the node's temp file exists
SvcExists ==
    /\ UNCHANGED restVars
    /\ pc = "svc_exists"
    /\ \E exists \in (IF entry = "node" THEN {TRUE} ELSE BOOLEAN) :
          IF exists
          THEN pc' = "svc_probe" /\ UNCHANGED <<outcome, ext>>
          ELSE SvcReturn(FALSE, <<>>)
    /\ UNCHANGED <<style, origin, sub, vres, cmd, pos, opos, entry, video_info>>

\* add_text_overlay: _get_video_info runs ffprobe
SvcProbe ==
    /\ UNCHANGED restVars
    /\ pc = "svc_probe"
    /\ \E info \in {None} \cup {Some(d) : d \in Durations} :
          /\ video_info' = info
          /\ IF IsNone(info)
             THEN SvcReturn(FALSE, <<"ffprobe">>)
             ELSE /\ pc' = "svc_build"
                  /\ ext' = ext \o <<"ffprobe">>
                  /\ outcome' = outcome
    /\ UNCHANGED <<style, origin, sub, vres, cmd, pos, opos, entry>>

\* add_text_overlay: _build_ffmpeg_command, which looks the font up
SvcBuild ==
    /\ UNCHANGED restVars
    /\ pc = "svc_build"
    /\ \E text \in TextSamples, font \in FontLookups :
          LET built == _build_ffmpeg_command(style, text, font.path, Val(video_info))
          IN  /\ cmd' = built
              /\ IF built.kind = "raise"
                 THEN SvcReturn(FALSE, font.events)
                 ELSE /\ pc' = "svc_run"
                      /\ ext' = ext \o font.events
                      /\ outcome' = outcome
    /\ UNCHANGED <<style, origin, sub, vres, pos, opos, entry, video_info>>

\* add_text_overlay: subprocess.run(cmd) and its return code
SvcRun ==
    /\ UNCHANGED restVars
    /\ pc = "svc_run"
    /\ \E ok \in BOOLEAN : SvcReturn(ok, <<"ffmpeg">>)
    /\ UNCHANGED <<style, origin, sub, vres, cmd, pos, opos, entry, video_info>>

\* _video_to_images, and the finally clause of process_text_overlay
NodeVideoToImages ==
    /\ UNCHANGED restVars
    /\ pc = "node_video_to_images"
    /\ \E processed \in BOOLEAN :
          outcome' = IF processed THEN "ok" ELSE "video_to_images_failed"
    /\ ext' = ext \o <<"temp_file", "ffmpeg", "unlink">>
    /\ pc' = "done"
    /\ UNCHANGED <<style, origin, sub, vres, cmd, pos, opos, entry, video_info>>

Init ==
    /\ style \in ServiceStyles
    /\ origin = "given"
    /\ sub = SubtitleStyle
    /\ NothingComputed
    /\ Idle
    /\ RestIdle

Next ==
    \/ NodeCall
    \/ NodeTempFiles
    \/ NodeImagesToVideo
    \/ ServiceCall
    \/ SvcExists
    \/ SvcProbe
    \/ SvcBuild
    \/ SvcRun
    \/ NodeVideoToImages

Spec == Init /\ [][Next]_vars

(***************************************************************************)
(* Applications of the font functions to a list of family names.           *)
(***************************************************************************)
OverlayIdle ==
    /\ style = TextOverlayStyle
    /\ origin = "given"
    /\ sub = SubtitleStyle
    /\ NothingComputed
    /\ Idle

\* every list of distinct family names of at most MaxFonts names
FontLists ==
    {fs \in UNION {[1..n -> FontUniverse] : n \in 0..MaxFonts} :
        \A i, j \in 1..Len(fs) : i # j => fs[i] # fs[j]}

\* _detect_font_language of every name
DetectLanguages ==
    /\ languages = None
    /\ languages' = Some([i \in 1..Len(family_names) |-> _detect_font_language(family_names[i])])
    /\ UNCHANGED <<overlayVars, laterVars, catalogVars, pathVars, family_names, ranked, labelled, stripped>>

\* _categorize_fonts(fonts)
CategorizeFonts ==
    /\ ranked = None
    /\ ranked' = Some(_categorize_fonts(family_names))
    /\ UNCHANGED <<overlayVars, laterVars, catalogVars, pathVars, family_names, languages, labelled, stripped>>

\* get_fonts_with_language_labels over the ranked list
LabelFonts ==
    /\ ranked # None
    /\ labelled = None
    /\ labelled' = Some(get_fonts_with_language_labels(Val(ranked)))
    /\ UNCHANGED <<overlayVars, laterVars, catalogVars, pathVars, family_names, languages, ranked, stripped>>

\* extract_font_name_from_label of every label
StripLabels ==
    /\ labelled # None
    /\ stripped = None
    /\ stripped' = Some([i \in 1..Len(Val(labelled)) |->
                            extract_font_name_from_label(Val(labelled)[i])])
    /\ UNCHANGED <<overlayVars, laterVars, catalogVars, pathVars, family_names, languages, ranked, labelled>>

InitFont ==
    /\ OverlayIdle
    /\ LaterIdle
    /\ CatalogIdle
    /\ PathIdle
    /\ family_names \in FontLists
    /\ languages = None
    /\ ranked = None
    /\ labelled = None
    /\ stripped = None

NextFont ==
    \/ DetectLanguages
    \/ CategorizeFonts
    \/ LabelFonts
    \/ StripLabels

SpecFont == InitFont /\ [][NextFont]_vars

(***************************************************************************)
(* The classifier on family names made of words of every token class.     *)
(***************************************************************************)
\* one word per class of token _detect_font_language looks for, and one
\* word of no class
ClassTokens ==
    { <<"u6cc9">>,
      <<"W", "Q", "Y">>,
      <<"M", "i", "n", "c", "h", "o">>,
      <<"G", "u", "l", "i", "m">>,
      <<"J", "P">>,
      <<"K", "R">>,
      <<"S", "C">>,
      <<"H", "K">>,
      <<"C", "J", "K">>,
      <<"A", "r", "a", "b">>,
      <<"E", "m", "o", "j", "i">>,
      <<"L", "a", "t", "o">> }

\* the words joined by spaces
RECURSIVE JoinWords(_)
JoinWords(words) ==
    IF Len(words) = 1 THEN words[1]
    ELSE words[1] \o <<" ">> \o JoinWords(Tail(words))

\* family names of 1..MaxTokens different words
TokenNames ==
    {JoinWords(ws) : ws \in {w \in UNION {[1..n -> ClassTokens] : n \in 1..MaxTokens} :
                                \A i, j \in 1..Len(w) : i # j => w[i] # w[j]}}

InitClassify ==
    /\ OverlayIdle
    /\ LaterIdle
    /\ CatalogIdle
    /\ PathIdle
    /\ \E name \in TokenNames : family_names = <<name>>
    /\ languages = None
    /\ ranked = None
    /\ labelled = None
    /\ stripped = None

NextClassify == DetectLanguages

SpecClassify == InitClassify /\ [][NextClassify]_vars

(***************************************************************************)
(* Font files: FontManager.get_font_path and the three places it looks.    *)
(* os.path.exists(p) is p \in files.                                       *)
(***************************************************************************)
\* the first path of candidates that exists, or None
RECURSIVE FirstExisting(_, _)
FirstExisting(existing, candidates) ==
    IF candidates = <<>> THEN None
    ELSE IF Head(candidates) \in existing THEN Some(Head(candidates))
    ELSE FirstExisting(existing, Tail(candidates))

\* os.path.join(search_path, file)
PathJoin(search_path, file) == search_path \o "/" \o file

\* font_info.get(weight, font_info.get('regular')) for a family of the config
ConfigFile(config, name, weight) ==
    IF weight \in DOMAIN config.fonts[name].file THEN <<config.fonts[name].file[weight]>>
    ELSE IF "regular" \in DOMAIN config.fonts[name].file
         THEN <<config.fonts[name].file["regular"]>>
    ELSE <<>>

\* the files of the fallbacks of a family that the config knows
RECURSIVE FallbackFiles(_, _, _)
FallbackFiles(config, fallbacks, weight) ==
    IF fallbacks = <<>> THEN <<>>
    ELSE (IF Head(fallbacks) \in DOMAIN config.fonts
          THEN ConfigFile(config, Head(fallbacks), weight) ELSE <<>>)
         \o FallbackFiles(config, Tail(fallbacks), weight)

\* the paths one search path is tried with, in order
RECURSIVE JoinAll(_, _)
JoinAll(search_path, file_names) ==
    IF file_names = <<>> THEN <<>>
    ELSE <<PathJoin(search_path, Head(file_names))>> \o JoinAll(search_path, Tail(file_names))

\* the paths the search paths that exist are tried with, in order
RECURSIVE ConfigCandidates(_, _, _, _, _)
ConfigCandidates(existing, config, search_paths, font_family, weight) ==
    IF search_paths = <<>> THEN <<>>
    ELSE (IF Head(search_paths) \in existing /\ font_family \in DOMAIN config.fonts
          THEN JoinAll(Head(search_paths),
                       ConfigFile(config, font_family, weight)
                       \o FallbackFiles(config, config.fonts[font_family].fallbacks, weight))
          ELSE <<>>)
         \o ConfigCandidates(existing, config, Tail(search_paths), font_family, weight)

\* FontManager._get_font_path_from_config; no config file, or one that cannot
\* be read, is config = None
_get_font_path_from_config(existing, config, font_family, weight) ==
    IF config = None THEN None
    ELSE FirstExisting(existing,
             ConfigCandidates(existing, Val(config), Val(config).search_paths,
                              font_family, weight))

\* font_paths of _get_font_path_fallback: family -> weight -> file
font_paths ==
    "Arial" :> (
        "regular" :> "/usr/share/fonts/truetype/liberation/LiberationSans-Regular.ttf" @@
        "bold" :> "/usr/share/fonts/truetype/liberation/LiberationSans-Bold.ttf" @@
        "fallback" :> "/usr/share/fonts/truetype/dejavu/DejaVuSans.ttf") @@
    "Helvetica" :> (
        "regular" :> "/usr/share/fonts/truetype/liberation/LiberationSans-Regular.ttf" @@
        "bold" :> "/usr/share/fonts/truetype/liberation/LiberationSans-Bold.ttf" @@
        "fallback" :> "/usr/share/fonts/truetype/liberation/LiberationSans-Regular.ttf") @@
    "DejaVu Sans" :> (
        "regular" :> "/usr/share/fonts/truetype/dejavu/DejaVuSans.ttf" @@
        "bold" :> "/usr/share/fonts/truetype/dejavu/DejaVuSans-Bold.ttf" @@
        "fallback" :> "/usr/share/fonts/truetype/dejavu/DejaVuSans.ttf") @@
    "Liberation Sans" :> (
        "regular" :> "/usr/share/fonts/truetype/liberation/LiberationSans-Regular.ttf" @@
        "bold" :> "/usr/share/fonts/truetype/liberation/LiberationSans-Bold.ttf" @@
        "fallback" :> "/usr/share/fonts/truetype/liberation/LiberationSans-Regular.ttf") @@
    "Ubuntu" :> (
        "regular" :> "/usr/share/fonts/truetype/ubuntu/Ubuntu-R.ttf" @@
        "bold" :> "/usr/share/fonts/truetype/ubuntu/Ubuntu-B.ttf" @@
        "fallback" :> "/usr/share/fonts/truetype/ubuntu/Ubuntu-R.ttf") @@
    "Times New Roman" :> (
        "regular" :> "/usr/share/fonts/truetype/liberation/LiberationSerif-Regular.ttf" @@
        "bold" :> "/usr/share/fonts/truetype/liberation/LiberationSerif-Bold.ttf" @@
        "fallback" :> "/usr/share/fonts/truetype/dejavu/DejaVuSerif.ttf") @@
    "Times" :> (
        "regular" :> "/usr/share/fonts/truetype/liberation/LiberationSerif-Regular.ttf" @@
        "bold" :> "/usr/share/fonts/truetype/liberation/LiberationSerif-Bold.ttf" @@
        "fallback" :> "/usr/share/fonts/truetype/liberation/LiberationSerif-Regular.ttf") @@
    "DejaVu Serif" :> (
        "regular" :> "/usr/share/fonts/truetype/dejavu/DejaVuSerif.ttf" @@
        "bold" :> "/usr/share/fonts/truetype/dejavu/DejaVuSerif-Bold.ttf" @@
        "fallback" :> "/usr/share/fonts/truetype/dejavu/DejaVuSerif.ttf") @@
    "Liberation Serif" :> (
        "regular" :> "/usr/share/fonts/truetype/liberation/LiberationSerif-Regular.ttf" @@
        "bold" :> "/usr/share/fonts/truetype/liberation/LiberationSerif-Bold.ttf" @@
        "fallback" :> "/usr/share/fonts/truetype/liberation/LiberationSerif-Regular.ttf") @@
    "Courier New" :> (
        "regular" :> "/usr/share/fonts/truetype/liberation/LiberationMono-Regular.ttf" @@
        "bold" :> "/usr/share/fonts/truetype/liberation/LiberationMono-Bold.ttf" @@
        "fallback" :> "/usr/share/fonts/truetype/dejavu/DejaVuSansMono.ttf") @@
    "DejaVu Sans Mono" :> (
        "regular" :> "/usr/share/fonts/truetype/dejavu/DejaVuSansMono.ttf" @@
        "bold" :> "/usr/share/fonts/truetype/dejavu/DejaVuSansMono-Bold.ttf" @@
        "fallback" :> "/usr/share/fonts/truetype/dejavu/DejaVuSansMono.ttf") @@
    "Liberation Mono" :> (
        "regular" :> "/usr/share/fonts/truetype/liberation/LiberationMono-Regular.ttf" @@
        "bold" :> "/usr/share/fonts/truetype/liberation/LiberationMono-Bold.ttf" @@
        "fallback" :> "/usr/share/fonts/truetype/liberation/LiberationMono-Regular.ttf") @@
    "Impact" :> (
        "regular" :> "/usr/share/fonts/truetype/dejavu/DejaVuSans-Bold.ttf" @@
        "bold" :> "/usr/share/fonts/truetype/dejavu/DejaVuSans-Bold.ttf" @@
        "fallback" :> "/usr/share/fonts/truetype/liberation/LiberationSans-Bold.ttf") @@
    "WenQuanYi Zen Hei" :> (
        "regular" :> "/usr/share/fonts/truetype/wqy/wqy-zenhei.ttc" @@
        "bold" :> "/usr/share/fonts/truetype/wqy/wqy-zenhei.ttc" @@
        "fallback" :> "/usr/share/fonts/truetype/wqy/wqy-zenhei.ttc") @@
    "WenQuanYi Micro Hei" :> (
        "regular" :> "/usr/share/fonts/truetype/wqy/wqy-microhei.ttc" @@
        "bold" :> "/usr/share/fonts/truetype/wqy/wqy-microhei.ttc" @@
        "fallback" :> "/usr/share/fonts/truetype/wqy/wqy-microhei.ttc") @@
    "Noto Sans CJK SC" :> (
        "regular" :> "/usr/share/fonts/opentype/noto/NotoSansCJK-Regular.ttc" @@
        "bold" :> "/usr/share/fonts/opentype/noto/NotoSansCJK-Bold.ttc" @@
        "fallback" :> "/usr/share/fonts/opentype/noto/NotoSansCJK-Regular.ttc") @@
    "Noto Serif CJK SC" :> (
        "regular" :> "/usr/share/fonts/opentype/noto/NotoSerifCJK-Regular.ttc" @@
        "bold" :> "/usr/share/fonts/opentype/noto/NotoSerifCJK-Bold.ttc" @@
        "fallback" :> "/usr/share/fonts/opentype/noto/NotoSerifCJK-Regular.ttc") @@
    "Lato" :> (
        "regular" :> "/usr/share/fonts/truetype/lato/Lato-Regular.ttf" @@
        "bold" :> "/usr/share/fonts/truetype/lato/Lato-Bold.ttf" @@
        "light" :> "/usr/share/fonts/truetype/lato/Lato-Light.ttf" @@
        "fallback" :> "/usr/share/fonts/truetype/lato/Lato-Regular.ttf")

\* fallback_order of _get_font_path_fallback
fallback_order ==
    << "/usr/share/fonts/truetype/dejavu/DejaVuSans.ttf",
       "/usr/share/fonts/truetype/dejavu/DejaVuSerif.ttf",
       "/usr/share/fonts/truetype/dejavu/DejaVuSansMono.ttf",
       "/usr/share/fonts/truetype/liberation/LiberationSans-Regular.ttf",
       "/usr/share/fonts/truetype/liberation/LiberationSerif-Regular.ttf",
       "/usr/share/fonts/truetype/liberation/LiberationMono-Regular.ttf",
       "/usr/share/fonts/truetype/wqy/wqy-zenhei.ttc",
       "/usr/share/fonts/truetype/lato/Lato-Regular.ttf" >>

\* the final return of _get_font_path_fallback, taken without a test
_get_font_path_fallback_table(existing, font_family, weight) ==
    IF font_family \in DOMAIN font_paths
    THEN font_paths[font_family]["regular"]
    ELSE fallback_order[1]

\* _get_font_path_fallback: the path of the family's own entry of font_paths
TablePath(existing, font_family, weight) ==
    LET font_cfg == font_paths[font_family]
    IN  IF font_family \in DOMAIN font_paths
        THEN FirstExisting(existing,
                 (IF weight \in DOMAIN font_cfg THEN <<font_cfg[weight]>> ELSE <<>>)
                 \o <<font_cfg["fallback"], font_cfg["regular"]>>)
        ELSE None

\* _get_font_path_fallback: the generic fallback, whatever the family
GenericPath(existing) ==
    LET generic == FirstExisting(existing, fallback_order)
    IN  IF generic # None THEN Val(generic)
        ELSE "/usr/share/fonts/truetype/dejavu/DejaVuSans.ttf"

\* FontManager._get_font_path_fallback
_get_font_path_fallback(existing, font_family, weight) ==
    LET own == TablePath(existing, font_family, weight)
    IN  IF own # None THEN Val(own) ELSE GenericPath(existing)

\* what the fc-match subprocess can do; stdout is the text after strip()
FcMatchOutcomes ==
    [raised : {TRUE}, returncode : {0}, stdout : {""}]
    \cup [raised : {FALSE}, returncode : {0, 1},
          stdout : {"", "/opt/fonts/Custom.ttf", "/opt/fonts/Gone.ttf", DejaVuSans}]

\* the part of get_font_path that asks fc-match
FcMatchPath(existing, fc) ==
    IF ~fc.raised /\ fc.returncode = 0 /\ fc.stdout # "" /\ fc.stdout \in existing
    THEN Some(fc.stdout)
    ELSE None

\* get_font_path asking the table before fc-match
ResolveFontPath_table_first(existing, config, font_family, weight, fc) ==
    LET configured == _get_font_path_from_config(existing, config, font_family, weight)
        own == TablePath(existing, font_family, weight)
        matched == FcMatchPath(existing, fc)
    IN  IF configured # None THEN Val(configured)
        ELSE IF own # None THEN Val(own)
        ELSE IF matched # None THEN Val(matched)
        ELSE GenericPath(existing)

\* the path get_font_path resolves for a key that is not cached
ResolveFontPath(existing, config, font_family, weight, fc) ==
    LET configured == _get_font_path_from_config(existing, config, font_family, weight)
        matched == FcMatchPath(existing, fc)
    IN  IF configured # None THEN Val(configured)
        ELSE IF matched # None THEN Val(matched)
        ELSE _get_font_path_fallback(existing, font_family, weight)

\* the families and weights get_font_path is asked for
PathFamilies == {"Arial", "Lato", "DejaVu Sans", "No Such Family"}
PathWeights == {"regular", "bold", "light"}

\* machines: the font files and directories that exist
LiberationSans == "/usr/share/fonts/truetype/liberation/LiberationSans-Regular.ttf"
LatoRegular == "/usr/share/fonts/truetype/lato/Lato-Regular.ttf"
FileSystems ==
    { {DejaVuSans},
      {DejaVuSans, LiberationSans},
      {DejaVuSans, LatoRegular, "/fonts", "/fonts/Lato-Bold.ttf"},
      {DejaVuSans, "/opt/fonts/Custom.ttf", "/fonts", "/fonts/Arial.ttf"},
      {LatoRegular},
      {} }

\* font_config.json: none, one with two families and two search paths, one
\* whose fallbacks have fallbacks
FontConfigs ==
    { None,
      Some([search_paths |-> <<"/missing", "/fonts">>,
            fonts |->
                "Lato" :> [file |-> ("regular" :> "Lato-Regular.ttf" @@
                                     "bold" :> "Lato-Bold.ttf"),
                           fallbacks |-> <<"Helvetica", "Arial">>] @@
                "Arial" :> [file |-> ("regular" :> "Arial.ttf"),
                            fallbacks |-> <<>>]]),
      Some([search_paths |-> <<"/fonts">>,
            fonts |->
                "Lato" :> [file |-> ("regular" :> "Lato-Regular.ttf"),
                           fallbacks |-> <<"Ubuntu">>] @@
                "Ubuntu" :> [file |-> ("regular" :> "Ubuntu-R.ttf"),
                             fallbacks |-> <<"Arial">>] @@
                "Arial" :> [file |-> ("regular" :> "Arial.ttf"),
                            fallbacks |-> <<>>]]) }

\* what the font packages of install_common_fonts put on the machine
PackageFiles == {DejaVuSans, LiberationSans}

\* f"{font_family}:{weight}"
cache_key(font_family, weight) == font_family \o ":" \o weight

\* FontManager.get_font_path
GetFontPath ==
    \E font_family \in PathFamilies, weight \in PathWeights, fc \in FcMatchOutcomes :
        LET key == cache_key(font_family, weight)
        IN  /\ key \in DOMAIN _font_cache \/ Cardinality(DOMAIN _font_cache) < MaxCached
            /\ path_request' = Some(<<font_family, weight>>)
            /\ IF key \in DOMAIN _font_cache
               THEN /\ returned_path' = Some(_font_cache[key])
                    /\ path_lookup' = Some([cached |-> TRUE, fc |-> None])
                    /\ UNCHANGED _font_cache
               ELSE LET resolved == ResolveFontPath(files, font_config, font_family, weight, fc)
                    IN  /\ returned_path' = Some(resolved)
                        /\ path_lookup' = Some([cached |-> FALSE, fc |-> Some(fc)])
                        /\ _font_cache' = (key :> resolved) @@ _font_cache
            /\ UNCHANGED <<files, font_config>>
            /\ UNCHANGED <<overlayVars, laterVars, fontVars, catalogVars>>

InitFontPath ==
    /\ OverlayIdle
    /\ LaterIdle
    /\ FontIdle
    /\ CatalogIdle
    /\ files \in FileSystems
    /\ font_config \in FontConfigs
    /\ _font_cache = <<>>
    /\ path_request = None
    /\ returned_path = None
    /\ path_lookup = None

NextFontPath == GetFontPath

SpecFontPath == InitFontPath /\ [][NextFontPath]_vars

(***************************************************************************)
(* Font discovery: FontManager.get_available_fonts and the reload at the   *)
(* end of install_common_fonts.                                            *)
(***************************************************************************)
\* a family name fc-list prints for a hidden font
DotHidden == <<".", "L", "a", "s", "t">>

\* lines of fc-list output: the comma-separated family names of one font
StdoutLines ==
    { <<Arial>>, <<Impact>>, <<Lato>>, <<NotoSansCJKJP>>,
      <<WenQuanYiZenHei, WenQuanYiNative>>, <<DotHidden>>, <<>> }
Stdouts == UNION {[1..n -> StdoutLines] : n \in 0..MaxLines}

\* the set fonts built from the lines of stdout
ParsedFonts(stdout) ==
    {stdout[i][1] : i \in {j \in 1..Len(stdout) :
                               /\ stdout[j] # <<>>
                               /\ stdout[j][1] # <<>>
                               /\ stdout[j][1][1] # "."}}

\* list(fonts): the elements of the set in any order
ListsOf(set) ==
    {l \in [1..Cardinality(set) -> set] : \A i, j \in 1..Len(l) : i # j => l[i] # l[j]}

\* every list the lines of a stdout can make, and the table of
\* _categorize_fonts of each
Listings == UNION {ListsOf(ParsedFonts(stdout)) : stdout \in Stdouts}
Categorized == [listed \in Listings |-> _categorize_fonts(listed)] @@ <<>>

\* the subprocess returned non-zero, or raised (timeout, fc-list missing)
QueryFailed ==
    /\ last_query' = "failed"
    /\ returned_fonts' = Some(_get_fallback_fonts)
    /\ UNCHANGED _available_fonts

\* the subprocess printed stdout
QueryPrinted(stdout) ==
    \E listed \in ListsOf(ParsedFonts(stdout)) :
        /\ last_query' = IF ParsedFonts(stdout) = {} THEN "empty" ELSE "families"
        /\ _available_fonts' = Some(Categorized[listed])
        /\ returned_fonts' = _available_fonts'

\* the part of get_available_fonts that runs fc-list
QueryCatalog ==
    \/ QueryFailed
    \/ \E stdout \in Stdouts : QueryPrinted(stdout)

\* the body of FontManager.get_available_fonts
get_available_fonts ==
    /\ catalog_calls < MaxCalls
    /\ catalog_calls' = catalog_calls + 1
    /\ IF _available_fonts # None
       THEN /\ returned_fonts' = _available_fonts
            /\ UNCHANGED <<_available_fonts, catalog_queries, last_query>>
       ELSE /\ QueryCatalog
            /\ catalog_queries' = catalog_queries + 1
    /\ first_fonts' = IF first_fonts = None THEN returned_fonts' ELSE first_fonts

\* FontManager.get_available_fonts
GetAvailableFonts ==
    /\ get_available_fonts
    /\ UNCHANGED <<_categorized_fonts, labeled_fonts>>
    /\ UNCHANGED <<overlayVars, laterVars, fontVars, pathVars>>

\* FontManager.get_font_language: _detect_font_language of each name is
\* computed once and kept in _font_language_cache
ListedFonts ==
    UNION {ParsedFonts(stdout) : stdout \in Stdouts}
        \cup {_get_fallback_fonts[i] : i \in 1..Len(_get_fallback_fonts)}
_font_language_cache == [font \in ListedFonts |-> _detect_font_language(font)] @@ <<>>
get_font_language(font_name) == _font_language_cache[font_name]

\* the dictionary get_fonts_by_language builds from the available fonts
categorized(all_fonts) ==
    [lang \in {language_order[k] : k \in 1..Len(language_order)} |->
        LET IsLang(font) == get_font_language(font) = lang
        IN  SelectSeq(all_fonts, IsLang)]

\* the body of FontManager.get_fonts_by_language: _categorized_fonts is
\* returned if it is set, and built from get_available_fonts() otherwise
get_fonts_by_language ==
    IF _categorized_fonts # None
    THEN UNCHANGED <<_available_fonts, catalog_queries, catalog_calls, returned_fonts,
                     first_fonts, last_query, _categorized_fonts>>
    ELSE /\ get_available_fonts
         /\ _categorized_fonts' = Some(categorized(Val(returned_fonts')))

\* FontManager.get_fonts_by_language
GetFontsByLanguage ==
    /\ get_fonts_by_language
    /\ UNCHANGED labeled_fonts
    /\ UNCHANGED <<overlayVars, laterVars, fontVars, pathVars>>

\* the labelled list made of the dictionary get_fonts_by_language returned
RECURSIVE LabelsOf(_, _)
LabelsOf(fonts_by_language, k) ==
    IF k > Len(language_order) THEN <<>>
    ELSE LET lang == language_order[k]
             of_lang == fonts_by_language[lang]
         IN  [i \in 1..Len(of_lang) |-> labeled_font(language_names(lang), of_lang[i])]
             \o LabelsOf(fonts_by_language, k + 1)

\* FontManager.get_fonts_with_language_labels
GetFontsWithLanguageLabels ==
    /\ get_fonts_by_language
    /\ labeled_fonts' = Some(LabelsOf(Val(_categorized_fonts'), 1))
    /\ UNCHANGED <<overlayVars, laterVars, fontVars, pathVars>>

\* FontManager.install_common_fonts: the packages that install add their
\* files; a step that raises (apt update, fc-cache) ends the call with the
\* caches untouched; otherwise the caches are cleared and the fonts are
\* detected again
InstallCommonFonts ==
    /\ files' \in {files, files \cup PackageFiles}
    /\ \/ UNCHANGED <<catalogVars, _font_cache>>
       \/ /\ QueryCatalog
          /\ catalog_queries' = 1
          /\ catalog_calls' = 1
          /\ first_fonts' = returned_fonts'
          /\ _font_cache' = <<>>
          /\ UNCHANGED <<_categorized_fonts, labeled_fonts>>
    /\ UNCHANGED <<font_config, path_request, returned_path, path_lookup>>
    /\ UNCHANGED <<overlayVars, laterVars, fontVars>>

InitCatalog ==
    /\ OverlayIdle
    /\ LaterIdle
    /\ FontIdle
    /\ CatalogIdle
    /\ PathIdle

NextCatalog ==
    \/ GetAvailableFonts
    \/ InstallCommonFonts

SpecCatalog == InitCatalog /\ [][NextCatalog]_vars

\* the font list and the catalogue by language of one FontManager
NextLanguages ==
    \/ GetAvailableFonts
    \/ InstallCommonFonts
    \/ GetFontsByLanguage
    \/ GetFontsWithLanguageLabels

SpecLanguages == InitCatalog /\ [][NextLanguages]_vars

(***************************************************************************)
(* Threads making their first request for font data: get_font_manager()    *)
(* followed by get_available_fonts() on the manager it returned.  A thread *)
(* can be preempted between any two statements; the code takes no lock.    *)
(***************************************************************************)
\* get_font_manager: if _font_manager is None
ManagerTest(t) ==
    /\ tpc[t] = "start"
    /\ tpc' = [tpc EXCEPT ![t] = IF _font_manager = None THEN "construct" ELSE "return"]
    /\ UNCHANGED <<_font_manager, manager_fonts, held, observed, fc_running, fc_runs>>
    /\ UNCHANGED <<overlayVars, fontVars, catalogVars, pathVars, whisperVars, presetVars,
                   pipelineVars>>

\* get_font_manager: _font_manager = FontManager()
ManagerConstruct(t) ==
    /\ tpc[t] = "construct"
    /\ manager_fonts' = Append(manager_fonts, None)
    /\ _font_manager' = Some(Len(manager_fonts) + 1)
    /\ tpc' = [tpc EXCEPT ![t] = "return"]
    /\ UNCHANGED <<held, observed, fc_running, fc_runs>>
    /\ UNCHANGED <<overlayVars, fontVars, catalogVars, pathVars, whisperVars, presetVars,
                   pipelineVars>>

\* get_font_manager: return _font_manager
ManagerReturn(t) ==
    /\ tpc[t] = "return"
    /\ held' = [held EXCEPT ![t] = _font_manager]
    /\ tpc' = [tpc EXCEPT ![t] = "call"]
    /\ UNCHANGED <<_font_manager, manager_fonts, observed, fc_running, fc_runs>>
    /\ UNCHANGED <<overlayVars, fontVars, catalogVars, pathVars, whisperVars, presetVars,
                   pipelineVars>>

\* get_available_fonts: if self._available_fonts is not None: return it
FontsTest(t) ==
    /\ tpc[t] = "call"
    /\ IF manager_fonts[Val(held[t])] # None
       THEN /\ observed' = [observed EXCEPT ![t] = manager_fonts[Val(held[t])]]
            /\ tpc' = [tpc EXCEPT ![t] = "done"]
       ELSE /\ tpc' = [tpc EXCEPT ![t] = "query"]
            /\ UNCHANGED observed
    /\ UNCHANGED <<_font_manager, manager_fonts, held, fc_running, fc_runs>>
    /\ UNCHANGED <<overlayVars, fontVars, catalogVars, pathVars, whisperVars, presetVars,
                   pipelineVars>>

\* get_available_fonts: subprocess.run starts fc-list
FontsQueryStart(t) ==
    /\ tpc[t] = "query"
    /\ fc_running' = fc_running \cup {t}
    /\ fc_runs' = fc_runs + 1
    /\ tpc' = [tpc EXCEPT ![t] = "running"]
    /\ UNCHANGED <<_font_manager, manager_fonts, held, observed>>
    /\ UNCHANGED <<overlayVars, fontVars, catalogVars, pathVars, whisperVars, presetVars,
                   pipelineVars>>

\* get_available_fonts: fc-list failed, the fallback list is returned
FontsQueryFailed(t) ==
    /\ tpc[t] = "running"
    /\ fc_running' = fc_running \ {t}
    /\ observed' = [observed EXCEPT ![t] = Some(_get_fallback_fonts)]
    /\ tpc' = [tpc EXCEPT ![t] = "done"]
    /\ UNCHANGED <<_font_manager, manager_fonts, held, fc_runs>>
    /\ UNCHANGED <<overlayVars, fontVars, catalogVars, pathVars, whisperVars, presetVars,
                   pipelineVars>>

\* get_available_fonts: fc-list printed stdout; the list is stored and returned
FontsQueryPrinted(t) ==
    /\ tpc[t] = "running"
    /\ \E stdout \in Stdouts :
         \E listed \in ListsOf(ParsedFonts(stdout)) :
            /\ manager_fonts' =
                   [manager_fonts EXCEPT ![Val(held[t])] = Some(_categorize_fonts(listed))]
            /\ observed' = [observed EXCEPT ![t] = Some(_categorize_fonts(listed))]
    /\ fc_running' = fc_running \ {t}
    /\ tpc' = [tpc EXCEPT ![t] = "done"]
    /\ UNCHANGED <<_font_manager, held, fc_runs>>
    /\ UNCHANGED <<overlayVars, fontVars, catalogVars, pathVars, whisperVars, presetVars,
                   pipelineVars>>

InitThreads ==
    /\ OverlayIdle
    /\ FontIdle
    /\ CatalogIdle
    /\ PathIdle
    /\ LaterIdle

NextThreads ==
    \E t \in Threads :
        \/ ManagerTest(t)
        \/ ManagerConstruct(t)
        \/ ManagerReturn(t)
        \/ FontsTest(t)
        \/ FontsQueryStart(t)
        \/ FontsQueryFailed(t)
        \/ FontsQueryPrinted(t)

SpecThreads == InitThreads /\ [][NextThreads]_vars

(***************************************************************************)
(* Threads calling WhisperModelNode.load_model.  _model_cache is a class   *)
(* attribute shared by every node; the code takes no lock.                 *)
(***************************************************************************)
\* the arguments of load_model
ModelSizes == {"tiny"}
LoadArgs ==
    [model_size : ModelSizes, device : {"cpu", "cuda"}, compute_type : {"float16"},
     force_reload : BOOLEAN]

\* f"{model_size}_{device}_{compute_type}"
model_key(a) == a.model_size \o "_" \o a.device \o "_" \o a.compute_type

\* WhisperService.__init__
NewService == [model |-> None, config |-> None]

\* WhisperService._load_model when WhisperModel(...) returns: on a device
\* other than cuda the model is made for cpu and int8
LoadedService(a) ==
    [model |-> Some(IF a.device = "cuda"
                    THEN <<a.model_size, a.device, a.compute_type>>
                    ELSE <<a.model_size, "cpu", "int8">>),
     config |-> Some(<<a.model_size, a.device, a.compute_type>>)]

\* load_model up to the cache test: a hit returns the cached service
LoadModelTest(t) ==
    /\ wpc[t] \in {"start", "done"}
    /\ \E a \in LoadArgs :
         /\ wargs' = [wargs EXCEPT ![t] = Some(a)]
         /\ IF ~a.force_reload /\ model_key(a) \in DOMAIN _model_cache
            THEN /\ wresult' = [wresult EXCEPT ![t] = Some(_model_cache[model_key(a)])]
                 /\ returned_services' = returned_services \cup {_model_cache[model_key(a)]}
                 /\ wpc' = [wpc EXCEPT ![t] = "done"]
                 /\ UNCHANGED <<services, service_state>>
            ELSE /\ services < MaxServices
                 /\ services' = services + 1
                 /\ service_state' = Append(service_state, NewService)
                 /\ wresult' = [wresult EXCEPT ![t] = Some(services + 1)]
                 /\ wpc' = [wpc EXCEPT ![t] = "loading"]
                 /\ UNCHANGED returned_services
    /\ UNCHANGED <<_model_cache, model_loads, transcribed>>
    /\ UNCHANGED <<overlayVars, fontVars, catalogVars, pathVars, threadVars, presetVars,
                   pipelineVars>>

\* a load_model whose failed load stores the service all the same
LoadModelFailed_cached(t) ==
    /\ wpc[t] = "loading"
    /\ _model_cache' = (model_key(Val(wargs[t])) :> Val(wresult[t])) @@ _model_cache
    /\ wresult' = [wresult EXCEPT ![t] = None]
    /\ wpc' = [wpc EXCEPT ![t] = "done"]
    /\ UNCHANGED <<services, wargs, model_loads, service_state, returned_services,
                   transcribed>>
    /\ UNCHANGED <<overlayVars, fontVars, catalogVars, pathVars, threadVars, presetVars,
                   pipelineVars>>

\* whisper_service._load_model returned: the service is cached and returned
LoadModelLoaded(t) ==
    /\ wpc[t] = "loading"
    /\ LET key == model_key(Val(wargs[t]))
           before == IF key \in DOMAIN model_loads THEN model_loads[key] ELSE 0
       IN  /\ _model_cache' = (key :> Val(wresult[t])) @@ _model_cache
           /\ model_loads' =
                  IF Val(wargs[t]).force_reload THEN model_loads
                  ELSE (key :> (before + 1)) @@ model_loads
    /\ service_state' =
          [service_state EXCEPT ![Val(wresult[t])] = LoadedService(Val(wargs[t]))]
    /\ returned_services' = returned_services \cup {Val(wresult[t])}
    /\ wpc' = [wpc EXCEPT ![t] = "done"]
    /\ UNCHANGED <<services, wargs, wresult, transcribed>>
    /\ UNCHANGED <<overlayVars, fontVars, catalogVars, pathVars, threadVars, presetVars,
                   pipelineVars>>

\* whisper_service._load_model raised: None is returned, nothing is cached
LoadModelFailed(t) ==
    /\ wpc[t] = "loading"
    /\ wresult' = [wresult EXCEPT ![t] = None]
    /\ wpc' = [wpc EXCEPT ![t] = "done"]
    /\ UNCHANGED <<_model_cache, services, wargs, model_loads, service_state,
                   returned_services, transcribed>>
    /\ UNCHANGED <<overlayVars, fontVars, catalogVars, pathVars, threadVars, presetVars,
                   pipelineVars>>

\* WhisperModelNode.clear_cache: clear_model_cache() on every cached service,
\* then _model_cache.clear()
clear_cache ==
    /\ service_state' =
          [id \in 1..Len(service_state) |->
              IF \E key \in DOMAIN _model_cache : _model_cache[key] = id
              THEN NewService ELSE service_state[id]]
    /\ _model_cache' = <<>>
    /\ model_loads' = <<>>

\* WhisperCacheManagerNode.manage_cache: "get_info" reads the cache and
\* changes nothing
ManageCache ==
    /\ \E action \in {"get_info", "clear_cache"} :
          IF action = "clear_cache"
          THEN clear_cache
          ELSE UNCHANGED <<_model_cache, model_loads, service_state>>
    /\ UNCHANGED <<services, wpc, wargs, wresult, returned_services, transcribed>>
    /\ UNCHANGED <<overlayVars, fontVars, catalogVars, pathVars, threadVars, presetVars,
                   pipelineVars>>

\* WhisperTranscribeNode.transcribe_audio with the service load_model returned
TranscribeAudio(t) ==
    /\ wpc[t] = "done"
    /\ transcribed' =
          IF wresult[t] = None THEN "model load failed"
          ELSE IF service_state[Val(wresult[t])].model # None THEN "transcribed"
          ELSE "model not loaded"
    /\ UNCHANGED <<_model_cache, services, wpc, wargs, wresult, model_loads, service_state,
                   returned_services>>
    /\ UNCHANGED <<overlayVars, fontVars, catalogVars, pathVars, threadVars, presetVars,
                   pipelineVars>>

InitWhisper ==
    /\ OverlayIdle
    /\ FontIdle
    /\ CatalogIdle
    /\ PathIdle
    /\ LaterIdle

NextWhisper ==
    \E t \in Threads :
        \/ LoadModelTest(t)
        \/ LoadModelLoaded(t)
        \/ LoadModelFailed(t)
        \/ TranscribeAudio(t)
        \/ ManageCache

SpecWhisper == InitWhisper /\ [][NextWhisper]_vars

(***************************************************************************)
(* PresetStyles: each factory constructs a SubtitleStyle.  Objects live in *)
(* heap; a reference is an index of heap.                                  *)
(***************************************************************************)
\* PresetStyles.default
default == SubtitleStyle

\* PresetStyles.cinema
cinema ==
    Override(SubtitleStyle,
        [font_size |-> 28, margin_x |-> 100, margin_y |-> 40, shadow_enabled |-> TRUE,
         shadow_offset_x |-> 4, shadow_offset_y |-> 4, shadow_blur |-> 6,
         outline_width |-> 2, font_weight |-> "bold", max_width_percent |-> 75])

\* PresetStyles.youtube
youtube ==
    Override(SubtitleStyle,
        [font_size |-> 20, background_enabled |-> TRUE,
         background_color |-> RGBA(255, 255, 0, 180), background_padding |-> 8,
         outline_width |-> 1])

\* PresetStyles.minimal
minimal ==
    Override(SubtitleStyle,
        [font_size |-> 22, shadow_enabled |-> FALSE, outline_width |-> 1,
         font_weight |-> "normal"])

\* PresetStyles.top_news
top_news ==
    Override(SubtitleStyle,
        [position |-> "top_center", font_size |-> 20, background_enabled |-> TRUE,
         background_color |-> RGBA(0, 0, 0, 200), background_padding |-> 12,
         margin_y |-> 30])

\* PresetStyles.strong_shadow
strong_shadow ==
    Override(SubtitleStyle,
        [font_size |-> 32, font_weight |-> "bold", margin_x |-> 120, margin_y |-> 30,
         shadow_enabled |-> TRUE, shadow_color |-> RGB(0, 0, 0), shadow_offset_x |-> 6,
         shadow_offset_y |-> 6, shadow_blur |-> 8, outline_width |-> 3,
         outline_color |-> RGB(0, 0, 0), font_color |-> RGB(255, 255, 255),
         max_width_percent |-> 70])

\* PresetStyles.dramatic_shadow
dramatic_shadow ==
    Override(SubtitleStyle,
        [font_size |-> 36, font_weight |-> "bold", margin_y |-> 60,
         shadow_enabled |-> TRUE, shadow_color |-> RGB(0, 0, 0), shadow_offset_x |-> 8,
         shadow_offset_y |-> 8, shadow_blur |-> 12, outline_width |-> 4,
         outline_color |-> RGB(0, 0, 0), font_color |-> RGB(255, 255, 255)])

\* the factories of PresetStyles, by name
Factories == {"default", "cinema", "youtube", "minimal", "top_news", "strong_shadow",
              "dramatic_shadow", "tiktok_classic", "tiktok_neon", "tiktok_bold",
              "tiktok_colorful", "tiktok_minimal", "tiktok_story", "tiktok_dance",
              "tiktok_luxury"}

\* the SubtitleStyle(...) expression a factory evaluates
Constructed(factory) ==
    CASE factory = "default" -> default
      [] factory = "cinema" -> cinema
      [] factory = "youtube" -> youtube
      [] factory = "minimal" -> minimal
      [] factory = "top_news" -> top_news
      [] factory = "strong_shadow" -> strong_shadow
      [] factory = "dramatic_shadow" -> dramatic_shadow
      [] OTHER -> Val(get_tiktok_preset_style(factory))

\* a factory that keeps the object it made and hands it out again
FactoryRef_kept(objects, factory) ==
    IF \E i \in 1..Len(objects) : objects[i].made_by = factory
    THEN CHOOSE i \in 1..Len(objects) : objects[i].made_by = factory
    ELSE Len(objects) + 1

\* the reference a factory returns: "return SubtitleStyle(...)" makes an object
FactoryRef(objects, factory) == Len(objects) + 1

\* heap after a factory call that returned ref
HeapAfterCall(objects, factory, ref) ==
    IF ref > Len(objects)
    THEN Append(objects, [made_by |-> factory, style |-> Constructed(factory)])
    ELSE objects

\* what a caller sees of a factory call
CallRecord(objects, factory, ref) ==
    [factory |-> factory, ref |-> ref, owned |-> ref > Len(objects),
     style |-> HeapAfterCall(objects, factory, ref)[ref].style]

\* a call of one PresetStyles factory
CallFactory ==
    \E factory \in Factories :
        LET ref == FactoryRef(heap, factory)
        IN  /\ ref <= MaxStyles
            /\ heap' = HeapAfterCall(heap, factory, ref)
            /\ preset_call' = Some(CallRecord(heap, factory, ref))
            /\ UNCHANGED custom_style
            /\ UNCHANGED <<overlayVars, fontVars, catalogVars, pathVars, threadVars,
                           whisperVars, pipelineVars>>

\* the keyword arguments of _create_custom_style
CustomKwargs ==
    [custom_font_size : {24, 30}, custom_position : {"none", "top_center"},
     font_color : {RGB(255, 255, 255), RGB(255, 0, 0)}, enable_shadow : BOOLEAN]

\* the test of _create_custom_style for "some setting is customised"
HasCustomSettings(kw) ==
    \/ kw.custom_position # "none"
    \/ kw.custom_font_size # 24
    \/ kw.font_color # RGB(255, 255, 255)
    \/ ~kw.enable_shadow

\* the assignments _create_custom_style makes to base_style
Customised(base_style, kw) ==
    [base_style EXCEPT
        !.position = IF kw.custom_position # "none" THEN kw.custom_position ELSE @,
        !.font_size = IF kw.custom_font_size # 24 THEN kw.custom_font_size ELSE @,
        !.font_color = IF kw.font_color # RGB(255, 255, 255) THEN kw.font_color ELSE @,
        !.shadow_enabled = kw.enable_shadow]

\* VideoSubtitleWithModelNode._create_custom_style
CreateCustomStyle ==
    \E kw \in CustomKwargs :
        /\ IF HasCustomSettings(kw)
           THEN LET ref == FactoryRef(heap, "default")
                    made == HeapAfterCall(heap, "default", ref)
                IN  /\ ref <= MaxStyles
                    /\ preset_call' = Some(CallRecord(heap, "default", ref))
                    /\ heap' = [made EXCEPT ![ref].style = Customised(@, kw)]
                    /\ custom_style' = Some(ref)
           ELSE /\ custom_style' = None
                /\ UNCHANGED <<heap, preset_call>>
        /\ UNCHANGED <<overlayVars, fontVars, catalogVars, pathVars, threadVars,
                       whisperVars, pipelineVars>>

InitPresets ==
    /\ OverlayIdle
    /\ FontIdle
    /\ CatalogIdle
    /\ PathIdle
    /\ LaterIdle

NextPresets ==
    \/ CallFactory
    \/ CreateCustomStyle

SpecPresets == InitPresets /\ [][NextPresets]_vars

(***************************************************************************)
(* The subtitle pipeline: VideoSubtitleGenerator.generate_subtitles_for_   *)
(* video and VideoSubtitleWithModelNode.process_video.  Each step is a     *)
(* call of a service that succeeds or fails; the files the steps write     *)
(* are added to the disk.                                                  *)
(***************************************************************************)
\* the names of the videos asked for; only clip.mp4 exists
VideoNames == {"clip", "gone"}

\* what each step of one run does: the return value of the service, or
\* "raised" for a transcription that raises; removed is whether os.remove
\* deleted the file or raised.  A run ends at the first step that fails, so
\* the outcomes differ in at most one failing step.
StepResults ==
    [extract : BOOLEAN, audio_valid : BOOLEAN, transcribe : {"ok", "empty", "raised"},
     srt : BOOLEAN, srt_valid : BOOLEAN, embed : BOOLEAN, removed : BOOLEAN]
Failures(o) ==
    LET passed == <<o.extract, o.audio_valid, o.transcribe = "ok", o.srt, o.srt_valid,
                    o.embed, o.removed>>
    IN  Cardinality({i \in 1..Len(passed) : ~passed[i]})
StepOutcomes == {o \in StepResults : Failures(o) <= 1}

\* os.path.join(output_dir, f"{stem}.{ext}")
File(name, suffix) == [stem |-> name, ext |-> suffix]

\* what a run returns and the disk it leaves
Returned(on_disk, ok, message) == [disk |-> on_disk, ok |-> ok, message |-> message]

\* VideoSubtitleGenerator.generate_subtitles_for_video
generate_subtitles_for_video(on_disk, video_name, o) ==
    LET audio_path == File(video_name, "wav")
        srt_path == File(video_name, "srt")
        output_video_path == File(video_name \o "_with_subtitles", "mp4")
        extracted == on_disk \cup {audio_path}
        written == extracted \cup {srt_path}
        embedded == written \cup {output_video_path}
    IN  IF File(video_name, "mp4") \notin on_disk
        THEN Returned(on_disk, FALSE, "video missing")
        ELSE IF ~o.extract THEN Returned(on_disk, FALSE, "audio extraction failed")
        ELSE IF ~o.audio_valid THEN Returned(extracted, FALSE, "audio validation failed")
        ELSE IF o.transcribe = "raised" THEN Returned(extracted, FALSE, "error while processing")
        ELSE IF o.transcribe = "empty" THEN Returned(extracted, FALSE, "recognition failed")
        ELSE IF ~o.srt THEN Returned(extracted, FALSE, "subtitle generation failed")
        ELSE IF ~o.srt_valid THEN Returned(written, FALSE, "subtitle validation failed")
        ELSE IF ~o.embed THEN Returned(written, FALSE, "embedding failed")
        ELSE Returned(IF o.removed THEN embedded \ {audio_path} ELSE embedded, TRUE, "")

\* the whisper_model argument of process_video: None, a service whose model
\* was cleared, a service with its model
ModelArguments == {"none", "cleared", "loaded"}

\* VideoSubtitleWithModelNode.process_video
process_video(on_disk, whisper_model, video_name, timestamp, o) ==
    LET unique_name == video_name \o "_" \o ToString(timestamp)
        audio_path == File(unique_name, "wav")
        srt_path == File(unique_name, "srt")
        output_video_path == File(unique_name \o "_with_subtitles", "mp4")
        extracted == on_disk \cup {audio_path}
        written == extracted \cup {srt_path}
        embedded == written \cup {output_video_path}
    IN  IF whisper_model = "none" THEN Returned(on_disk, FALSE, "model missing")
        ELSE IF File(video_name, "mp4") \notin on_disk
        THEN Returned(on_disk, FALSE, "video missing")
        ELSE IF ~o.extract THEN Returned(on_disk, FALSE, "audio extraction failed")
        ELSE IF ~o.audio_valid THEN Returned(extracted, FALSE, "audio validation failed")
        ELSE IF whisper_model = "cleared" THEN Returned(extracted, FALSE, "model not loaded")
        ELSE IF o.transcribe = "raised" THEN Returned(extracted, FALSE, "transcription failed")
        ELSE IF o.transcribe = "empty" THEN Returned(extracted, FALSE, "recognition failed")
        ELSE IF ~o.srt THEN Returned(extracted, FALSE, "subtitle generation failed")
        ELSE IF ~o.srt_valid THEN Returned(written, FALSE, "subtitle validation failed")
        ELSE IF ~o.embed THEN Returned(written, FALSE, "embedding failed")
        ELSE Returned(IF o.removed THEN embedded \ {audio_path} ELSE embedded, TRUE, "")

\* a call of generate_subtitles_for_video
GenerateSubtitlesForVideo ==
    \E video_name \in VideoNames, o \in StepOutcomes :
        LET run == generate_subtitles_for_video(disk, video_name, o)
        IN  /\ disk' = run.disk
            /\ pipeline_result' =
                  Some([by |-> "generate_subtitles_for_video",
                        audio_path |-> File(video_name, "wav"),
                        ok |-> run.ok, message |-> run.message])
            /\ UNCHANGED now
            /\ UNCHANGED <<overlayVars, fontVars, catalogVars, pathVars, threadVars,
                           whisperVars, presetVars>>

\* a call of process_video
ProcessVideo ==
    \E video_name \in VideoNames, whisper_model \in ModelArguments, o \in StepOutcomes :
        LET run == process_video(disk, whisper_model, video_name, now, o)
        IN  /\ disk' = run.disk
            /\ pipeline_result' =
                  Some([by |-> "process_video",
                        audio_path |-> File(video_name \o "_" \o ToString(now), "wav"),
                        ok |-> run.ok, message |-> run.message])
            /\ UNCHANGED now
            /\ UNCHANGED <<overlayVars, fontVars, catalogVars, pathVars, threadVars,
                           whisperVars, presetVars>>

\* a second passes
Tick ==
    /\ now < MaxClock
    /\ now' = now + 1
    /\ UNCHANGED <<disk, pipeline_result>>
    /\ UNCHANGED <<overlayVars, fontVars, catalogVars, pathVars, threadVars,
                   whisperVars, presetVars>>

InitPipeline ==
    /\ OverlayIdle
    /\ FontIdle
    /\ CatalogIdle
    /\ PathIdle
    /\ LaterIdle

NextPipeline ==
    \/ GenerateSubtitlesForVideo
    \/ ProcessVideo
    \/ Tick

SpecPipeline == InitPipeline /\ [][NextPipeline]_vars

(***************************************************************************)
(* Properties of validate_style (checked under SpecValidate).              *)
(***************************************************************************)
InRange(comp) == comp.int /\ comp.v >= 0 /\ comp.v <= 255
\* a tuple of exactly 3 integers in 0..255
IsRGB(color) ==
    /\ color.tuple
    /\ Len(color.c) = 3
    /\ \A i \in 1..Len(color.c) : InRange(color.c[i])
\* a tuple of 3 or 4 integers in 0..255
IsRGBorRGBA(color) ==
    /\ color.tuple
    /\ Len(color.c) \in {3, 4}
    /\ \A i \in 1..Len(color.c) : InRange(color.c[i])

\* the checks in the order the specification gives them
CheckOrder ==
    <<"start_time", "end_time", "font_color", "background_color", "shadow_color",
      "border_color", "background_opacity", "font_size">>
\* check k of CheckOrder finds a violation in s (a colour: the colour check refuses it)
Violates(s, k) ==
    CASE k = 1 -> s.start_time < 0
      [] k = 2 -> s.end_time # None /\ ~(Val(s.end_time) > s.start_time)
      [] k \in 3..6 -> ~IsRGB(s[CheckOrder[k]])
      [] k = 7 -> \/ s.background_opacity.num < 0
                 \/ s.background_opacity.num > s.background_opacity.den
      [] k = 8 -> ~(s.font_size > 0)
Validated == vres # NotValidated

\* C2: validate_style checks time window (start, then end), the four colours
\* (font, background, shadow, border), opacity, font size in this order and
\* reports only the earliest violation; (True, "") only when there is none.
C2_FirstViolationOnly ==
    Validated =>
        /\ vres.ok <=> (\A k \in 1..Len(CheckOrder) : ~Violates(style, k))
        /\ vres.ok => vres.field = "" /\ vres.reason = ""
        /\ ~vres.ok =>
              \E k \in 1..Len(CheckOrder) :
                  /\ vres.field = CheckOrder[k]
                  /\ Violates(style, k)
                  /\ \A j \in 1..(k - 1) : ~Violates(style, j)

\* a style with violations in three categories, reported by its earliest one
C2_Witness ==
    /\ Validated
    /\ ~Violates(style, 1) /\ ~Violates(style, 2) /\ ~Violates(style, 3)
    /\ Violates(style, 4) /\ Violates(style, 7) /\ Violates(style, 8)
    /\ vres.field = "background_color"

NoTimeViolation(s) == ~Violates(s, 1) /\ ~Violates(s, 2)
ColorIndex == 3..6

EffectOrder ==
    <<"glow_enabled", "double_outline_enabled", "neon_enabled",
      "shadow_3d_enabled", "glitch_enabled">>
EnabledEffects(s) == {k \in 1..Len(EffectOrder) : s[EffectOrder[k]]}
MultiFlag(s) == Cardinality(EnabledEffects(s)) > 1
\* the first enabled effect in EffectOrder, 0 when none is enabled
FirstEffect(s) ==
    IF EnabledEffects(s) = {} THEN 0
    ELSE CHOOSE k \in EnabledEffects(s) : \A j \in EnabledEffects(s) : k <= j
Built == cmd.kind \in {"vf", "filter_complex"}
\* the values the option k is given in a list of drawtext options
Values(parts, k) == {parts[i].v : i \in {j \in 1..Len(parts) : parts[j].k = k}}
Outputs(graph) == {graph[i].output : i \in 1..Len(graph)}
\* the labels effect k of EffectOrder may give its entries
EffectLabels(k) ==
    CASE k = 1 -> {"glow0", "glow1", "glow2", "glow_final"}
      [] k = 2 -> {"outer_outline", "double_outline", "double_final"}
      [] k = 3 -> {"neon" \o ToString(i) : i \in 0..(MaxLayers + 1)} \cup {"neon_final"}
      [] k = 4 -> {"shadow3d" \o ToString(i) : i \in 0..(MaxLayers + 1)}
                    \cup {"shadow3d_final"}
      [] k = 5 -> {"glitch_red", "glitch_color", "glitch_final"}
FinalLabel(k) ==
    CASE k = 1 -> "glow_final" [] k = 2 -> "double_final" [] k = 3 -> "neon_final"
      [] k = 4 -> "shadow3d_final" [] k = 5 -> "glitch_final"

C5_LinearChain ==
    cmd.kind = "filter_complex" =>
        LET g == cmd.graph
        IN  /\ Len(g) >= 1
            /\ g[1].input = "0:v"
            /\ \A i \in 2..Len(g) : g[i].input = g[i - 1].output
            /\ \A i, j \in 1..Len(g) : i # j => g[i].output # g[j].output
            /\ \A i \in 1..Len(g) : g[i].output # "0:v"
            /\ cmd.map = g[Len(g)].output

\* a 3D shadow of at least three layers, and a neon effect of no layer at all
C5_Witness ==
    /\ cmd.kind = "filter_complex"
    /\ \/ FirstEffect(style) = 4 /\ style.shadow_3d_layers >= 3 /\ Len(cmd.graph) >= 4
       \/ FirstEffect(style) = 3 /\ style.neon_glow_layers = 0 /\ Len(cmd.graph) = 1

GlowCompiled == style.glow_enabled /\ cmd.kind = "filter_complex"

DoubleOutlineCompiled == FirstEffect(style) = 2 /\ cmd.kind = "filter_complex"

\* C7: the double-outline effect yields exactly 3 entries in the order outer
\* border (invisible fill, outer width and colour), inner border (invisible
\* fill, inner width and colour), opaque fill; the fill's output is the sink.
C7_DoubleOutlineOrder ==
    DoubleOutlineCompiled =>
        LET g == cmd.graph
        IN  /\ Len(g) = 3
            /\ Values(g[1].parts, "fontcolor") = {Transparent}
            /\ Values(g[1].parts, "borderw") = {ToString(style.outline_outer_width)}
            /\ Values(g[1].parts, "bordercolor") = {ColorHex(style.outline_outer_color)}
            /\ Values(g[2].parts, "fontcolor") = {Transparent}
            /\ Values(g[2].parts, "borderw") = {ToString(style.outline_inner_width)}
            /\ Values(g[2].parts, "bordercolor") = {ColorHex(style.outline_inner_color)}
            /\ Values(g[3].parts, "fontcolor") = {ColorHex(style.font_color)}
            /\ Values(g[3].parts, "borderw") = {}
            /\ cmd.map = g[3].output

C7_Witness ==
    /\ DoubleOutlineCompiled
    /\ Len(cmd.graph) = 3
    /\ Values(cmd.graph[1].parts, "borderw") = {"4"}
    /\ Values(cmd.graph[2].parts, "borderw") = {"2"}
    /\ cmd.map = "double_final"

\* C8: whenever the background is enabled the compiled chain draws the
\* background box, in its first entry and in no later one, on the basic path
\* and for every advanced effect.
C8_BackgroundBoxFirst ==
    Built /\ style.background_enabled =>
        /\ Values(cmd.graph[1].parts, "box") = {"1"}
        /\ \A i \in 2..Len(cmd.graph) : Values(cmd.graph[i].parts, "box") = {}

(***************************************************************************)
(* Properties of the position resolvers (checked under SpecPos).           *)
(***************************************************************************)
CustomSupplied ==
    sub.position = "custom" /\ sub.custom_x # None /\ sub.custom_y # None
SuppliedXY == <<ToString(Val(sub.custom_x)), ToString(Val(sub.custom_y))>>

\* C9: for a CUSTOM anchor the resolved position is exactly the supplied
\* custom_x and custom_y, in SubtitleStyle.get_position_filter and after the
\* style is converted to an overlay style and compiled.
C9_CustomVerbatim ==
    CustomSupplied =>
        /\ pos # NoPos => <<pos.x, pos.y>> = SuppliedXY
        /\ origin = "converted" /\ opos # NoOPos => opos = SuppliedXY
        /\ origin = "converted" /\ Built =>
              \A i \in 1..Len(cmd.graph) :
                  /\ Values(cmd.graph[i].parts, "x") = {SuppliedXY[1]}
                  /\ Values(cmd.graph[i].parts, "y") = {SuppliedXY[2]}

UnOffsetX == {"0", "(w-text_w)/2", "w-text_w"}
UnOffsetY == {"0", "(h-text_h)/2", "h-text_h"}

\* C10: with a zero margin the position expression is the un-offset form, with
\* no trailing zero term, for every anchor and alignment in both resolvers.
C10_ZeroMarginUnOffset ==
    /\ opos # NoOPos /\ style.margin_x = 0 => opos[1] \in UnOffsetX
    /\ pos # NoPos /\ sub.position # "custom" =>
          /\ sub.margin_x = 0 => pos.x \in UnOffsetX
          /\ sub.margin_y = 0 => pos.y \in UnOffsetY

(***************************************************************************)
(* Properties of the entry points (checked under Spec).                    *)
(***************************************************************************)
\* C1: whenever an entry point (process_text_overlay or add_text_overlay) is
\* running or has returned with a style that fails validation, no external
\* interaction has been made (no temp file, ffprobe, font lookup or ffmpeg)
\* and no command has been compiled from the style.
C1_InvalidStyleNoInteraction ==
    (entry # "none" /\ ~validate_style(style).ok) => (ext = <<>> /\ cmd = NoCmd)

DefaultWithPreset(p) == [TextOverlayStyle EXCEPT !.position_preset = p]
PixelMargins == {ToString(m) : m \in 0..200}

\* C11: for a default overlay style get_position_expression resolves the named
\* anchors with pixel margins: bottom_center gives x = (w-text_w)/2 and
\* y = h-text_h-<margin_y>, top_left gives x = str(margin_x) and
\* y = str(margin_y), center gives x = (w-text_w)/2 and y = (h-text_h)/2.
C11_NamedAnchorPixelMargins ==
    (origin = "given" /\ opos # NoOPos) =>
        /\ style = DefaultWithPreset("bottom_center") =>
              /\ opos[1] = "(w-text_w)/2"
              /\ opos[2] \in {"h-text_h-" \o m : m \in PixelMargins}
        /\ style = DefaultWithPreset("top_left") =>
              /\ opos[1] = ToString(style.margin_x)
              /\ opos[2] \in PixelMargins
        /\ style = DefaultWithPreset("center") =>
              /\ opos[1] = "(w-text_w)/2"
              /\ opos[2] = "(h-text_h)/2"

(***************************************************************************)
(* Properties of the font functions (checked under SpecFont).              *)
(***************************************************************************)
LanguageOf(name) ==
    Val(languages)[CHOOSE i \in 1..Len(family_names) : family_names[i] = name]
Listed(name) == \E i \in 1..Len(family_names) : family_names[i] = name

\* C12: the classifier returns chinese for "WenQuanYi Zen Hei", japanese for
\* "Noto Sans CJK JP", latin for "Arial" and korean for "Malgun Gothic".
C12_ClassifierExamples ==
    languages # None =>
        /\ Listed(WenQuanYiZenHei) => LanguageOf(WenQuanYiZenHei) = "chinese"
        /\ Listed(NotoSansCJKJP) => LanguageOf(NotoSansCJKJP) = "japanese"
        /\ Listed(Arial) => LanguageOf(Arial) = "latin"
        /\ Listed(MalgunGothic) => LanguageOf(MalgunGothic) = "korean"

Reordered(names, pi) == [i \in 1..Len(names) |-> names[pi[i]]]

\* C13: font ranking is deterministic: for a fixed set of discovered family
\* names _categorize_fonts returns the same ordered list for every order in
\* which the set is handed to it, also when several fonts share a score.
C13_RankingIndependentOfOrder ==
    ranked # None =>
        \A pi \in Permutations(1..Len(family_names)) :
            _categorize_fonts(Reordered(family_names, pi)) = Val(ranked)

LanguageTags ==
    {<<"E", "N">>, <<"C", "N">>, <<"J", "P">>, <<"K", "R">>, <<"A", "R">>, <<"S", "Y", "M">>}
Wrapped(tag, x) == <<"[">> \o tag \o <<"]", " ">> \o x
Names(list) == {list[i] : i \in 1..Len(list)}

\* C17: stripping the label of "[<TAG>] " + x gives back x: every label made
\* by get_fonts_with_language_labels is some tag wrapped around the name that
\* extract_font_name_from_label returns for it, and the names returned are
\* exactly the family names that were labelled.
C17_LabelRoundTrip ==
    stripped # None =>
        /\ Len(Val(stripped)) = Len(Val(labelled))
        /\ \A i \in 1..Len(Val(labelled)) :
              \E tag \in LanguageTags :
                  Val(labelled)[i] = Wrapped(tag, Val(stripped)[i])
        /\ Names(Val(stripped)) = Names(family_names)
        /\ Len(Val(stripped)) = Len(family_names)

C17_Witness ==
    /\ stripped # None
    /\ Len(family_names) = MaxFonts
    /\ \E i, j \in 1..Len(Val(labelled)) :
          /\ Val(labelled)[i] = Wrapped(<<"E", "N">>, Arial)
          /\ Val(stripped)[i] = Arial
          /\ Val(labelled)[j] = Wrapped(<<"C", "N">>, WenQuanYiZenHei)
          /\ Val(stripped)[j] = WenQuanYiZenHei

(***************************************************************************)
(* Properties of font discovery (checked under SpecCatalog).               *)
(***************************************************************************)
\* C14: between resets of the cache the catalog is queried at most once, and
\* every get_available_fonts call after the first returns the list the first
\* one returned, whatever the outcome of the first query.
C14_CatalogQueriedOnce ==
    /\ catalog_queries <= 1
    /\ first_fonts # None => returned_fonts = first_fonts

\* C15: get_available_fonts never returns an empty list: when the query
\* failed or printed no family it returns the built-in fallback list.
C15_NeverEmptyList ==
    returned_fonts # None =>
        /\ Val(returned_fonts) # <<>>
        /\ last_query \in {"failed", "empty"} =>
              Val(returned_fonts) = _get_fallback_fonts

(***************************************************************************)
(* Properties of get_font_path (checked under SpecFontPath).               *)
(***************************************************************************)
\* C16: every get_font_path call returns a path, and when the generic
\* sans-serif fallback file exists the returned path names an existing file,
\* also for a family that the config, fc-match and the table do not know.
C16_PathAlwaysResolved ==
    path_request # None =>
        /\ returned_path # None
        /\ Val(returned_path) # ""
        /\ DejaVuSans \in files => Val(returned_path) \in files

\* a family no source knows was resolved, by the generic fallback
C16_Witness ==
    /\ path_request = Some(<<"No Such Family", "bold">>)
    /\ font_config # None
    /\ DejaVuSans \in files
    /\ returned_path = Some(DejaVuSans)

(***************************************************************************)
(* Properties of concurrent first requests (checked under SpecThreads).    *)
(***************************************************************************)
\* C18: concurrent first requests for font data run the catalog query under
\* mutual exclusion and exactly once, create only one FontManager, and every
\* caller observes the same list.
C18_FirstRequestExclusive ==
    /\ Cardinality(fc_running) <= 1
    /\ fc_runs <= 1
    /\ Len(manager_fonts) <= 1
    /\ \A t, u \in Threads :
          tpc[t] = "done" /\ tpc[u] = "done" => observed[t] = observed[u]
    /\ (\A t \in Threads : tpc[t] = "done") => fc_runs = 1

(***************************************************************************)
(* Properties of concurrent load_model calls (checked under SpecWhisper).  *)
(***************************************************************************)
\* C19: requests with the same key that do not force a reload load the
\* model at most once for that key, also when they run concurrently.
C19_OneLoadPerKey ==
    \A key \in DOMAIN model_loads : model_loads[key] <= 1

(***************************************************************************)
(* Properties of the preset factories (checked under SpecPresets).         *)
(***************************************************************************)
\* C20: a PresetStyles factory returns an object nobody else holds, whose
\* value is the one its constructor expression gives, whatever was assigned
\* before to the fields of styles returned by earlier calls; so two calls of
\* one factory return equal styles.
C20_FactoriesPure ==
    preset_call # None =>
        /\ Val(preset_call).owned
        /\ Val(preset_call).style = Constructed(Val(preset_call).factory)

\* default() was called after _create_custom_style had assigned to the fields
\* of a style that default() returned
C20_Witness ==
    /\ preset_call # None
    /\ Val(preset_call).factory = "default"
    /\ \E i \in 1..Len(heap) :
          /\ i < Val(preset_call).ref
          /\ heap[i].made_by = "default"
          /\ heap[i].style # default

(***************************************************************************)
(* Properties of the classifier (checked under SpecClassify).              *)
(***************************************************************************)
\* the languages of the region codes a lower-case name contains
RegionLanguages(lower) ==
    {l \in {"chinese", "japanese", "korean"} :
        \/ l = "chinese" /\ \E code \in {<<"s", "c">>, <<"c", "n">>, <<"h", "k">>,
                                          <<"t", "c">>, <<"t", "w">>} : Contains(code, lower)
        \/ l = "japanese" /\ Contains(<<"j", "p">>, lower)
        \/ l = "korean" /\ Contains(<<"k", "r">>, lower)}

\* the languages the ordered heuristic allows for a name: the language of the
\* first step that matches; a name with region codes of several languages
\* may get any of them
HeuristicLanguages(name) ==
    LET lower == Lower(name)
    IN  IF AnyKeyword(chinese_chars, name) THEN {"chinese"}
        ELSE IF AnyKeyword(chinese_keywords, lower) THEN {"chinese"}
        ELSE IF AnyKeyword(japanese_keywords, lower) THEN {"japanese"}
        ELSE IF AnyKeyword(korean_keywords, lower) THEN {"korean"}
        ELSE IF RegionLanguages(lower) # {} THEN RegionLanguages(lower)
        ELSE IF Contains(<<"c", "j", "k">>, lower) THEN {"chinese"}
        ELSE IF AnyKeyword(arabic_keywords, lower) THEN {"arabic"}
        ELSE IF AnyKeyword(symbol_keywords, lower) THEN {"symbol"}
        ELSE {"latin"}

\* C21: for every family name the classifier returns the language of the
\* first matching step of the ordered heuristic: Chinese characters,
\* romanized Chinese keywords, Japanese tokens, Korean tokens, region codes,
\* bare cjk, Arabic keywords, symbol keywords, latin.
C21_ClassifierFollowsHeuristic ==
    languages # None =>
        \A i \in 1..Len(family_names) :
            Val(languages)[i] \in HeuristicLanguages(family_names[i])

\* the file each tier yields for the last request, None when it fails
ConfigTier ==
    _get_font_path_from_config(files, font_config, Val(path_request)[1],
                               Val(path_request)[2])
FcMatchTier == FcMatchPath(files, Val(Val(path_lookup).fc))
TableTier == TablePath(files, Val(path_request)[1], Val(path_request)[2])
Resolved == path_lookup # None /\ ~Val(path_lookup).cached

\* C22: a get_font_path call that resolves its key returns the file of the
\* first tier that yields one, in the order configuration file, fc-match,
\* static table, and the generic fallback only when all three yield none.
C22_TiersInOrder ==
    Resolved =>
        returned_path =
            IF ConfigTier # None THEN ConfigTier
            ELSE IF FcMatchTier # None THEN FcMatchTier
            ELSE IF TableTier # None THEN TableTier
            ELSE Some(GenericPath(files))

\* fc-match decided although the table had another file for the family
C22_Witness ==
    /\ Resolved
    /\ ConfigTier = None
    /\ FcMatchTier # None
    /\ TableTier # None
    /\ TableTier # FcMatchTier
    /\ returned_path = FcMatchTier

\* the paths of a family's own file under every search path that exists
RECURSIVE OwnPaths(_, _, _)
OwnPaths(search_paths, file_names, existing) ==
    IF search_paths = <<>> THEN <<>>
    ELSE (IF Head(search_paths) \in existing
          THEN JoinAll(Head(search_paths), file_names) ELSE <<>>)
         \o OwnPaths(Tail(search_paths), file_names, existing)

\* looking a family up in the config: its own file, else its fallbacks in
\* list order, each looked up the same way; depth bounds a cycle of fallbacks
RECURSIVE LookUp(_, _, _, _, _)
RECURSIVE LookUpFirst(_, _, _, _, _)
LookUp(existing, config, font_family, weight, depth) ==
    IF font_family \notin DOMAIN config.fonts THEN None
    ELSE LET own == FirstExisting(existing,
                        OwnPaths(config.search_paths,
                                 ConfigFile(config, font_family, weight), existing))
         IN  IF own # None THEN own
             ELSE IF depth = 0 THEN None
             ELSE LookUpFirst(existing, config, config.fonts[font_family].fallbacks,
                              weight, depth - 1)
LookUpFirst(existing, config, fallbacks, weight, depth) ==
    IF fallbacks = <<>> THEN None
    ELSE LET first == LookUp(existing, config, Head(fallbacks), weight, depth)
         IN  IF first # None THEN first
             ELSE LookUpFirst(existing, config, Tail(fallbacks), weight, depth)

\* C23: in the configuration tier a family whose own file is not found is
\* resolved through its fallback list in order, each fallback looked up like
\* a requested family, its own fallback list included; the first existing
\* file wins.
C23_FallbacksLookedUpAlike ==
    Resolved /\ font_config # None =>
        ConfigTier = LookUp(files, Val(font_config), Val(path_request)[1],
                            Val(path_request)[2],
                            Cardinality(DOMAIN Val(font_config).fonts))

(***************************************************************************)
(* More properties of the command builders (checked under SpecCompile).    *)
(***************************************************************************)
GlitchCompiled == FirstEffect(style) = 5 /\ cmd.kind = "filter_complex"

\* the value a drawtext option ends up with: its last assignment in the list
LastValue(parts, k) ==
    parts[CHOOSE i \in 1..Len(parts) :
              /\ parts[i].k = k
              /\ \A j \in (i + 1)..Len(parts) : parts[j].k # k].v

\* the x expression of the style, and the displacement as it is printed
BaseX == get_position_expression(style)[1]
Displacement == ToString(style.glitch_displacement)

\* C24: with colour shift the glitch chain is exactly a red pass at x plus the
\* displacement, a cyan pass at x minus the displacement and the main pass in
\* the font colour; without colour shift it is exactly the main pass, reading
\* the base label.
C24_GlitchChain ==
    GlitchCompiled =>
        LET g == cmd.graph
        IN  IF style.glitch_color_shift
            THEN /\ Len(g) = 3
                 /\ g[1].input = "0:v"
                 /\ LastValue(g[1].parts, "fontcolor") = "0xFF0000FF"
                 /\ LastValue(g[1].parts, "x") = BaseX \o "+" \o Displacement
                 /\ g[2].input = g[1].output
                 /\ LastValue(g[2].parts, "fontcolor") = "0x00FFFFFF"
                 /\ LastValue(g[2].parts, "x") = BaseX \o "-" \o Displacement
                 /\ g[3].input = g[2].output
                 /\ Values(g[3].parts, "fontcolor") = {ColorHex(style.font_color)}
                 /\ Values(g[3].parts, "x") = {BaseX}
                 /\ cmd.map = g[3].output
            ELSE /\ Len(g) = 1
                 /\ g[1].input = "0:v"
                 /\ Values(g[1].parts, "fontcolor") = {ColorHex(style.font_color)}
                 /\ Values(g[1].parts, "x") = {BaseX}
                 /\ cmd.map = g[1].output

\* a glitch chain without colour shift: the main pass alone
C24_Witness ==
    /\ GlitchCompiled
    /\ ~style.glitch_color_shift
    /\ Len(cmd.graph) = 1
    /\ cmd.graph[1].output = "glitch_final"

\* the style with every effect flag but the first enabled one cleared
OnlyFirstEffect(s) ==
    [f \in DOMAIN s |->
        IF \E k \in 1..Len(EffectOrder) : EffectOrder[k] = f
        THEN FirstEffect(s) # 0 /\ EffectOrder[FirstEffect(s)] = f
        ELSE s[f]]

\* C25: the builder emits the layers of the first enabled effect in the
\* order glow, double outline, neon, 3D shadow, glitch, exactly as if no
\* other flag were set; with no flag set it emits the basic single primitive.
C25_FirstEnabledEffectOnly ==
    Built =>
        /\ \E text \in TextSamples, font_path \in FontFiles, video_duration \in Durations :
              cmd = _build_ffmpeg_command(OnlyFirstEffect(style), text, font_path,
                                          video_duration)
        /\ FirstEffect(style) = 0 => cmd.kind = "vf" /\ Len(cmd.graph) = 1
        /\ FirstEffect(style) # 0 =>
              cmd.kind = "filter_complex" /\ cmd.map = FinalLabel(FirstEffect(style))

\* double outline, 3D shadow and glitch all set: compiled as double outline
C25_Witness ==
    /\ EnabledEffects(style) = {2, 4, 5}
    /\ cmd.kind = "filter_complex"
    /\ cmd.map = "double_final"
    /\ Len(cmd.graph) = 3

\* C30: every emitted drawtext primitive assigns each option name at most
\* once, for every effect and every style; a shifted layer replaces the base
\* x expression and does not add a second x assignment.
C30_OptionsAssignedOnce ==
    Built =>
        \A e \in 1..Len(cmd.graph) :
            \A i, j \in 1..Len(cmd.graph[e].parts) :
                i # j => cmd.graph[e].parts[i].k # cmd.graph[e].parts[j].k

(***************************************************************************)
(* Properties of the model cache (checked under SpecWhisper).              *)
(***************************************************************************)
\* every cached service has a model, loaded for the configuration of its key
CacheEntriesLoaded ==
    \A key \in DOMAIN _model_cache :
        LET service == service_state[_model_cache[key]]
        IN  /\ service.model # None
            /\ service.config # None
            /\ Val(service.config)[1] \o "_" \o Val(service.config)[2] \o "_"
                   \o Val(service.config)[3] = key

\* a load_model call ends with a failed load
LoadFails ==
    \E t \in Threads : wpc[t] = "loading" /\ wpc'[t] = "done" /\ wresult'[t] = None

\* C26: after any load_model and clear_cache calls each cache entry maps its
\* key to a service whose model is loaded and whose configuration is that of
\* the key; a failed load adds no entry and leaves a cached entry in place.
C26_CacheHoldsLoadedServices ==
    /\ []CacheEntriesLoaded
    /\ [][LoadFails => _model_cache' = _model_cache]_vars

\* a forced reload failed while the key was cached, and the entry is still there
C26_Witness ==
    \E t \in Threads :
        /\ wpc[t] = "done"
        /\ wresult[t] = None
        /\ wargs[t] # None
        /\ Val(wargs[t]).force_reload
        /\ model_key(Val(wargs[t])) \in DOMAIN _model_cache

\* C27: a service returned by a successful load_model keeps its model
\* whatever load_model, clear_cache and manage_cache calls follow, so a later
\* transcribe_audio holding it never finds the model not loaded.
C27_ReturnedServiceStaysLoaded ==
    /\ \A id \in returned_services : service_state[id].model # None
    /\ transcribed # "model not loaded"

(***************************************************************************)
(* The catalogue by language and the discovered list (checked under        *)
(* SpecLanguages).                                                         *)
(***************************************************************************)
\* the fonts of a list
FontsOf(list) == {list[i] : i \in 1..Len(list)}

\* the fonts of all the lists of a dictionary by language
FontsIn(fonts_by_language) ==
    UNION {FontsOf(fonts_by_language[lang]) : lang \in DOMAIN fonts_by_language}

\* C28: after any get_available_fonts, get_fonts_by_language,
\* get_fonts_with_language_labels and install_common_fonts calls, the union
\* of the lists by language is the list get_available_fonts now returns, and
\* the labelled list names every one of those fonts.
C28_CatalogueFollowsDiscoveredList ==
    /\ (_categorized_fonts # None /\ _available_fonts # None) =>
          FontsIn(Val(_categorized_fonts)) = FontsOf(Val(_available_fonts))
    /\ (labeled_fonts # None /\ _available_fonts # None) =>
          {extract_font_name_from_label(Val(labeled_fonts)[i]) :
              i \in 1..Len(Val(labeled_fonts))} = FontsOf(Val(_available_fonts))

(***************************************************************************)
(* The intermediate audio file (checked under SpecPipeline).               *)
(***************************************************************************)
\* C29: whenever generate_subtitles_for_video or process_video has returned,
\* with success or with a failure at a step after the audio extraction, the
\* WAV file it extracted is not on the disk.
C29_NoAudioFileLeft ==
    pipeline_result # None => Val(pipeline_result).audio_path \notin disk

====
